---- MODULE Spec2Model ----
(***************************************************************************)
(* A state-machine model of the parser-combinator engine                   *)
(* (github.com/shibukawa/parsercombinator).                                *)
(*                                                                         *)
(* A Parser is a Go closure func(pctx, tokens) (consumed, newTokens, err). *)
(* The model represents every closure by a node record (its captured       *)
(* variables) and runs the nested calls on an explicit call stack: one     *)
(* frame per closure invocation, holding the closure's local variables.    *)
(* A step of the machine is one stretch of a closure's code between two    *)
(* calls of inner parsers.  The toolkit's test file supplies the leaf      *)
(* parsers (Digit, String, Operator, GenErr...) and the driver that        *)
(* evaluates one grammar under the three Or modes.                         *)
(***************************************************************************)
EXTENDS Integers, Sequences, FiniteSets, TLC

VARIABLES
    pctx,      \* the ParseContext of the evaluation in progress (or last one)
    testPC,    \* the scratch ParseContext of checkTransformSafety
    stderr,    \* the diagnostics written to os.Stderr
    stack,     \* call stack of parser invocations; bottom frame is Evaluate
    src,       \* the raw input strings given to EvaluateWithRawTokens
    alias,     \* Alias.body of every alias of the grammar, by alias name
    plan,      \* the evaluations of the test: <<[options, parser]>>
    outcomes,  \* what each finished Evaluate call returned and left in pctx
    status     \* "running" | "done" | "fault" (host stack exhausted) | "panic"

vars == <<pctx, testPC, stderr, stack, src, alias, plan, outcomes, status>>

----------------------------------------------------------------------------
(* Bounds of the model *)

\* longest input (number of raw tokens)
MaxLen == 3
\* frames the host call stack can hold before the process dies
MaxStack == 22
\* the lines of an input of TestRecover's kind
MaxLines == 3
\* segments Split, SplitN and FindIter may collect
MaxSegments == 5
\* the iterations of one Repeat loop the model follows
MaxIter == 4

----------------------------------------------------------------------------
(* type.go / errors: Pos, Token, ParseError and the four error kinds *)

\* a nil *Pos
NoPos == -1

ErrNotMatch == "not match"
ErrRepeatCount == "repeat count"
ErrCritical == "critical error"
ErrStackOverflow == "stack overflow"
\* the test file's own sentinel, outside the taxonomy
ErrWrongType == "wrong type"

\* a nil error
NoErr == [isErr |-> FALSE, kinds |-> {}, pos |-> NoPos]

\* &ParseError{Parent: <error wrapping the sentinels in kinds>, Pos: pos}
ParseError(kinds, pos) == [isErr |-> TRUE, kinds |-> kinds, pos |-> pos]

\* errors.Is(err, target) through ParseError.Unwrap, %w and errors.Join
ErrorsIs(err, target) == err.isErr /\ target \in err.kinds

NewErrNotMatch(pos) == ParseError({ErrNotMatch}, pos)
NewErrRepeatCount(pos) == ParseError({ErrRepeatCount}, pos)
NewErrCritical(pos) == ParseError({ErrCritical}, pos)
NewErrStackOverflow(pos) == ParseError({ErrStackOverflow}, pos)

\* a join that keeps the first error only
ErrorsJoinFirst(errs) ==
    IF Len(errs) = 0 THEN NoErr
    ELSE [isErr |-> TRUE, kinds |-> errs[1].kinds, pos |-> NoPos]

\* errors.Join(errs...): nil when there is nothing to join
ErrorsJoin(errs) ==
    IF Len(errs) = 0 THEN NoErr
    ELSE [isErr |-> TRUE,
          kinds |-> UNION {errs[k].kinds : k \in 1..Len(errs)},
          pos |-> NoPos]

\* &ParseError{Parent: errors.Join(allError...), Pos: pos}
JoinedParseError(allError, pos) == ParseError(ErrorsJoin(allError).kinds, pos)

Token(type, pos, raw, val) == [Type |-> type, Pos |-> pos, Raw |-> raw, Val |-> val]

\* strconv.Atoi on the raw strings of the model's alphabet
AtoiOk(raw) == raw \in {"1", "10", "100", "200"}
Atoi(raw) ==
    CASE raw = "1" -> 1
      [] raw = "10" -> 10
      [] raw = "100" -> 100
      [] raw = "200" -> 200
      [] OTHER -> 0

\* tokens[from:] with Go's 0-based from
SliceFrom(tokens, from) == SubSeq(tokens, from + 1, Len(tokens))

\* the (consumed, newTokens, err) triple a Parser returns
Ret(consumed, newTokens, err) ==
    [consumed |-> consumed, newTokens |-> newTokens, err |-> err]

\* getFirstPos(src); also the "var pos *Pos; if len(src) > 0 {...}" idiom
getFirstPos(tokens) == IF Len(tokens) > 0 THEN tokens[1].Pos ELSE NoPos

----------------------------------------------------------------------------
(* Parser values: the closures the constructors return *)

OrModeSafe == "Safe"
OrModeFast == "Fast"
OrModeTryFast == "TryFast"

Node(op, name, kids, min, max) ==
    [op |-> op, name |-> name, kids |-> kids, min |-> min, max |-> max]

\* Trace(name, p)
Trace(name, p) == Node("trace", name, <<p>>, 0, 0)

\* the test file's leaf parsers, each Trace(name, func...)
Digit == Trace("digit", Node("leaf", "digit", <<>>, 0, 0))
String == Trace("string", Node("leaf", "string", <<>>, 0, 0))
Operator == Trace("operator", Node("leaf", "operator", <<>>, 0, 0))
GenErrNotMatch == Trace("err-not-match", Node("leaf", "err-not-match", <<>>, 0, 0))
GenErrRepeatCount == Trace("err-repeat-count", Node("leaf", "err-repeat-count", <<>>, 0, 0))
GenErrCritical == Trace("err-critical", Node("leaf", "err-critical", <<>>, 0, 0))
EOL == Trace("eol", Node("leaf", "eol", <<>>, 0, 0))

SeqWithLabel(label, parsers) == Trace(label, Node("seq", label, parsers, 0, 0))
SeqOf(parsers) == SeqWithLabel("seq", parsers)
Or(parsers) == Trace("or", Node("or", "", parsers, 0, 0))
Trans(parser, tf) == Node("trans", tf, <<parser>>, 0, 0)
Repeat(label, min, max, parser) == Trace(label, Node("repeat", label, <<parser>>, min, max))
OneOrMore(label, parser) == Repeat(label, 1, -1, parser)
ZeroOrMore(label, parser) == Repeat(label, 0, -1, parser)
Optional(parser) == Trace("optional", Node("optional", "", <<parser>>, 0, 0))
Recover(search, body, skipUntil) ==
    Trace("recover", Node("recover", "", <<search, body, skipUntil>>, 0, 0))
Lookahead(parser) == Trace("lookahead", Node("lookahead", "", <<parser>>, 0, 0))
NotFollowedBy(parser) ==
    Trace("not-followed-by", Node("not-followed-by", "", <<parser>>, 0, 0))
Peek(parser) == Trace("peek", Node("peek", "", <<parser>>, 0, 0))
Label(label, parser) == Node("label", label, <<parser>>, 0, 0)
\* Before(callback) with the callback that accepts an operator
Before == Trace("before", Node("leaf", "before", <<>>, 0, 0))
\* None() without a label: the bare closure
None == Node("leaf", "none", <<>>, 0, 0)
Expected == Node("expected", "", <<>>, 0, 0)
Fail == Node("fail", "", <<>>, 0, 0)

\* NewAlias(name): the placeholder parser; define(body) returns the instance
AliasOf(name) == Node("alias", name, <<>>, 0, 0)
InstanceOf(name) == Node("instance", name, <<>>, 0, 0)

----------------------------------------------------------------------------
(* ParseContext (type.go) *)

\* NewParseContext(): every other field is Go's zero value
NewParseContext ==
    [Tokens |-> <<>>, Pos |-> 0, RemainedTokens |-> <<>>, Results |-> <<>>,
     Traces |-> <<>>, Errors |-> <<>>, Depth |-> 0, TraceEnable |-> FALSE,
     MaxDepth |-> 1000, OrMode |-> OrModeSafe, CheckTransformSafety |-> FALSE]

\* a log that holds the latest error only
AppendErrorLatest(pc, err) == [pc EXCEPT !.Errors = <<err>>]

\* pc.AppendError(err, pos): every error of the model is already a *ParseError
AppendError(pc, err) == [pc EXCEPT !.Errors = Append(@, err)]

\* the depth check with "Depth > MaxDepth" for "Depth >= MaxDepth"
CheckDepthAndIncrementOffByOne(pc, pos) ==
    IF pc.MaxDepth > 0 /\ pc.Depth > pc.MaxDepth
    THEN [pc |-> pc, err |-> NewErrStackOverflow(pos)]
    ELSE [pc |-> [pc EXCEPT !.Depth = @ + 1], err |-> NoErr]

\* the depth check that never refuses
CheckDepthAndIncrementUnlimited(pc, pos) ==
    [pc |-> [pc EXCEPT !.Depth = @ + 1], err |-> NoErr]

\* pc.CheckDepthAndIncrement(pos): the context afterwards and the error returned
CheckDepthAndIncrement(pc, pos) ==
    IF pc.MaxDepth > 0 /\ pc.Depth >= pc.MaxDepth
    THEN [pc |-> pc, err |-> NewErrStackOverflow(pos)]
    ELSE [pc |-> [pc EXCEPT !.Depth = @ + 1], err |-> NoErr]

\* pc.DecrementDepth()
DecrementDepth(pc) == IF pc.Depth > 0 THEN [pc EXCEPT !.Depth = @ - 1] ELSE pc

\* a TraceInfo; Result is err.Error() or the rendered values
TraceInfo(tt, depth, name, pos, err, vals) ==
    [TraceType |-> tt, Depth |-> depth, Name |-> name, Pos |-> pos,
     Result |-> [err |-> err, vals |-> vals]]

ValsOf(tokens) == [k \in 1..Len(tokens) |-> tokens[k].Val]

----------------------------------------------------------------------------
(* The call stack *)

\* bestResult / firstMatch / bestMatch of the Or implementations
NoMatch == [consumed |-> 0, newTokens |-> <<>>, hasResult |-> FALSE, index |-> 0]

\* a fresh invocation of parser p on tokens: locals at their zero values
NewFrame(p, tokens, cx) ==
    [p |-> p, src |-> tokens, cx |-> cx, pc |-> "start", rets |-> <<>>,
     offset |-> 0, converted |-> <<>>, i |-> 0,
     best |-> NoMatch, first |-> NoMatch, allError |-> <<>>, traceIndex |-> 0]

Top == stack[Len(stack)]
Running == status = "running" /\ stack # <<>>
At(op, pc) == Running /\ Top.p.op = op /\ Top.pc = pc

\* what the innermost running invocation last got back from a parser it called
LastRet == Top.rets[Len(Top.rets)]

\* the context the running closure was called with
Ctx == IF Top.cx = "test" THEN testPC ELSE pctx

\* the running closure updates the context it was called with
SetCtx(c) ==
    IF Top.cx = "test"
    THEN testPC' = c /\ pctx' = pctx
    ELSE pctx' = c /\ testPC' = testPC

\* the running closure, its locals now f, calls child(cx, tokens) and goes on
\* at f.pc when the call returns; the host stack may be full
InvokeOn(f, child, tokens, cx) ==
    IF Len(stack) < MaxStack
    THEN /\ stack' = Append([stack EXCEPT ![Len(stack)] = f], NewFrame(child, tokens, cx))
         /\ status' = status
    ELSE /\ stack' = stack
         /\ status' = "fault"

\* the usual call: on the caller's own context
Invoke(f, child, tokens) == InvokeOn([f EXCEPT !.pc = "resume"], child, tokens, f.cx)

\* the running closure returns r to its caller
Return(r) ==
    /\ stack' = [SubSeq(stack, 1, Len(stack) - 1) EXCEPT
                    ![Len(stack) - 1].rets = Append(@, r)]
    /\ status' = status

----------------------------------------------------------------------------
(* The test file's leaf parsers *)

\* Before's loop with the callback "token.Raw == "+"": the index of the first
\* token the callback accepts, len(tokens) when it accepts none
BeforeCount(tokens) ==
    IF \E k \in 1..Len(tokens) : tokens[k].Raw = "+"
    THEN (CHOOSE k \in 1..Len(tokens) :
             /\ tokens[k].Raw = "+"
             /\ \A j \in 1..(k - 1) : tokens[j].Raw # "+") - 1
    ELSE Len(tokens)

LeafBody(name, tokens) ==
    CASE name = "digit" ->
           IF Len(tokens) = 0 THEN Ret(0, <<>>, NewErrNotMatch(NoPos))
           ELSE IF tokens[1].Type = "raw"
                THEN IF AtoiOk(tokens[1].Raw)
                     THEN Ret(1, <<Token("digit", tokens[1].Pos, "", Atoi(tokens[1].Raw))>>, NoErr)
                     ELSE Ret(0, <<>>, NewErrNotMatch(tokens[1].Pos))
           ELSE IF tokens[1].Type = "digit" THEN Ret(1, SubSeq(tokens, 1, 1), NoErr)
           ELSE Ret(0, <<>>, NewErrNotMatch(tokens[1].Pos))
      [] name = "string" ->
           IF Len(tokens) = 0 THEN Ret(0, <<>>, NewErrNotMatch(NoPos))
           ELSE IF tokens[1].Type = "raw"
                THEN Ret(1, <<Token("string", tokens[1].Pos, tokens[1].Raw, 0)>>, NoErr)
           ELSE IF tokens[1].Type = "string" THEN Ret(1, SubSeq(tokens, 1, 1), NoErr)
           ELSE Ret(0, <<>>, ParseError({ErrWrongType}, tokens[1].Pos))
      [] name = "operator" ->
           IF Len(tokens) = 0 THEN Ret(0, <<>>, NewErrNotMatch(NoPos))
           ELSE IF tokens[1].Type = "raw"
                THEN IF tokens[1].Raw \in {"+", "-", "*", "/"}
                     THEN Ret(1, <<Token("operator", tokens[1].Pos, tokens[1].Raw, 0)>>, NoErr)
                     ELSE Ret(0, <<>>, NewErrNotMatch(tokens[1].Pos))
           ELSE IF tokens[1].Type = "operator" THEN Ret(1, SubSeq(tokens, 1, 1), NoErr)
           ELSE Ret(0, <<>>, NewErrNotMatch(tokens[1].Pos))
      [] name = "err-not-match" -> Ret(0, <<>>, NewErrNotMatch(NoPos))
      [] name = "err-repeat-count" -> Ret(0, <<>>, NewErrRepeatCount(NoPos))
      [] name = "err-critical" -> Ret(0, <<>>, NewErrCritical(NoPos))
      [] name = "none" -> Ret(0, <<>>, NoErr)
      [] name = "before" ->
           Ret(BeforeCount(tokens), SubSeq(tokens, 1, BeforeCount(tokens)), NoErr)
      [] name = "eol" ->
           IF tokens[1].Type = "raw" /\ tokens[1].Raw = ";"
           THEN Ret(1, <<Token("digit", tokens[1].Pos, ";", 0)>>, NoErr)
           ELSE IF tokens[1].Type = "eol" THEN Ret(1, <<>>, NoErr)
           ELSE Ret(0, <<>>, NewErrNotMatch(tokens[1].Pos))

\* "src[0]" without a length test: an index out of range on an empty slice
LeafPanics(name, tokens) == name = "eol" /\ Len(tokens) = 0

LeafStep ==
    /\ At("leaf", "start")
    /\ IF LeafPanics(Top.p.name, Top.src)
       THEN stack' = stack /\ status' = "panic"
       ELSE Return(LeafBody(Top.p.name, Top.src))
    /\ UNCHANGED <<pctx, testPC, stderr, src, alias, plan, outcomes>>

----------------------------------------------------------------------------
(* Trace: the depth guard and the trace log around every combinator *)

TraceEnter ==
    /\ At("trace", "start")
    /\ LET pos == getFirstPos(Top.src)
           chk == CheckDepthAndIncrement(Ctx, pos)
           entered == IF chk.pc.TraceEnable
                      THEN [chk.pc EXCEPT !.Traces = Append(@,
                               TraceInfo("Enter", chk.pc.Depth - 1, Top.p.name, pos, NoErr, <<>>))]
                      ELSE chk.pc
       IN IF chk.err.isErr
          THEN /\ Return(Ret(0, <<>>, chk.err))
               /\ SetCtx(chk.pc)
          ELSE /\ Invoke([Top EXCEPT !.traceIndex = Len(entered.Traces)],
                         Top.p.kids[1], Top.src)
               /\ SetCtx(entered)
    /\ UNCHANGED <<stderr, src, alias, plan, outcomes>>

\* the trace log after the wrapped parser returned r
TraceLogged(pc, f, r) ==
    LET tt == IF r.err.isErr THEN "NotMatch" ELSE "Match"
        vals == IF r.err.isErr THEN <<>> ELSE ValsOf(r.newTokens)
    IN IF ~pc.TraceEnable THEN pc
       ELSE IF Len(pc.Traces) = f.traceIndex
            THEN [pc EXCEPT !.Traces[Len(pc.Traces)] =
                     [@ EXCEPT !.TraceType = IF tt = "NotMatch" THEN "EnterNotMatch"
                                             ELSE "EnterMatch",
                               !.Result = [err |-> r.err, vals |-> vals]]]
            ELSE [pc EXCEPT !.Traces = Append(@,
                     TraceInfo(tt, pc.Depth - 1, f.p.name, getFirstPos(f.src), r.err, vals))]

\* the closure with DecrementDepth on the success path only, not deferred
TraceExitNoDefer ==
    /\ At("trace", "resume")
    /\ SetCtx(IF LastRet.err.isErr
              THEN TraceLogged(Ctx, Top, LastRet)
              ELSE DecrementDepth(TraceLogged(Ctx, Top, LastRet)))
    /\ Return(LastRet)
    /\ UNCHANGED <<stderr, src, alias, plan, outcomes>>

\* the rest of the closure once p returned, then the deferred DecrementDepth
TraceExit ==
    /\ At("trace", "resume")
    /\ SetCtx(DecrementDepth(TraceLogged(Ctx, Top, LastRet)))
    /\ Return(LastRet)
    /\ UNCHANGED <<stderr, src, alias, plan, outcomes>>

----------------------------------------------------------------------------
(* Seq *)

\* the slice the next element parser is given
SeqCurrentSrc(tokens, offset) ==
    IF offset < Len(tokens) THEN SliceFrom(tokens, offset) ELSE <<>>

\* the loop failing with NotMatch ("end of tokens") once no token is left
SeqStepEndOfTokens ==
    /\ Running /\ Top.p.op = "seq"
    /\ LET f == Top
           g == IF f.pc = "resume"
                THEN [f EXCEPT !.converted = @ \o LastRet.newTokens,
                               !.offset = @ + LastRet.consumed,
                               !.i = @ + 1]
                ELSE f
       IN IF f.pc = "resume" /\ LastRet.err.isErr
          THEN Return(Ret(0, f.src, LastRet.err))
          ELSE IF g.i >= Len(f.p.kids)
               THEN Return(Ret(g.offset, g.converted, NoErr))
               ELSE IF g.offset >= Len(f.src)
                    THEN Return(Ret(0, <<>>, NewErrNotMatch(getFirstPos(f.src))))
                    ELSE Invoke(g, f.p.kids[g.i + 1], SliceFrom(f.src, g.offset))
    /\ UNCHANGED <<pctx, testPC, stderr, src, alias, plan, outcomes>>

SeqStep ==
    /\ Running /\ Top.p.op = "seq"
    /\ LET f == Top
           g == IF f.pc = "resume"
                THEN [f EXCEPT !.converted = @ \o LastRet.newTokens,
                               !.offset = @ + LastRet.consumed,
                               !.i = @ + 1]
                ELSE f
       IN IF f.pc = "resume" /\ LastRet.err.isErr
          THEN Return(Ret(0, f.src, LastRet.err))
          ELSE IF g.i >= Len(f.p.kids)
               THEN Return(Ret(g.offset, g.converted, NoErr))
               ELSE Invoke(g, f.p.kids[g.i + 1], SeqCurrentSrc(f.src, g.offset))
    /\ UNCHANGED <<pctx, testPC, stderr, src, alias, plan, outcomes>>

----------------------------------------------------------------------------
(* Or: the three selection policies *)

\* errors.Is(err, ErrNotMatch) || errors.Is(err, ErrRepeatCount)
\* NotMatch alone taken for an error that lets Or and Optional go on
IsRecoverableNotMatchOnly(err) == ErrorsIs(err, ErrNotMatch)

\* every error taken for one that lets Or and Optional go on
IsRecoverableAny(err) == err.isErr

IsRecoverable(err) == ErrorsIs(err, ErrNotMatch) \/ ErrorsIs(err, ErrRepeatCount)

\* the first match kept whatever the later ones consumed
LongestMatchKeepsFirst(best, r, index) ==
    IF ~best.hasResult
    THEN [consumed |-> r.consumed, newTokens |-> r.newTokens,
          hasResult |-> TRUE, index |-> index]
    ELSE best

\* "if !bestResult.hasResult || consumed > bestResult.consumed {...}" for the
\* match r of the alternative at index
LongestMatch(best, r, index) ==
    IF ~best.hasResult \/ r.consumed > best.consumed
    THEN [consumed |-> r.consumed, newTokens |-> r.newTokens,
          hasResult |-> TRUE, index |-> index]
    ELSE best

\* "if !firstMatch.hasResult {...}"
FirstMatch(first, r, index) ==
    IF ~first.hasResult
    THEN [consumed |-> r.consumed, newTokens |-> r.newTokens,
          hasResult |-> TRUE, index |-> index]
    ELSE first

\* the loop over the alternatives goes on after the locals became g: the next
\* alternative is called on the same src, or the loop is over and done is returned
OrContinue(g, done) ==
    IF g.i < Len(g.p.kids)
    THEN Invoke(g, g.p.kids[g.i + 1], g.src)
    ELSE Return(done)

\* what the Or implementations return when no alternative was left to try
OrNoMatch(g) == Ret(0, <<>>, JoinedParseError(g.allError, getFirstPos(g.src)))

orSafeDone(g) ==
    IF g.best.hasResult
    THEN Ret(g.best.consumed, g.best.newTokens, NoErr)
    ELSE OrNoMatch(g)

\* orSafe: one pass of the loop body for the alternative that just returned
orSafe ==
    /\ Running /\ Top.p.op = "or" /\ Ctx.OrMode \notin {OrModeFast, OrModeTryFast}
    /\ LET f == Top
       IN IF f.pc = "start" THEN OrContinue(f, orSafeDone(f))
          ELSE IF ~LastRet.err.isErr
          THEN (LET g == [f EXCEPT !.best = LongestMatch(@, LastRet, 0), !.i = @ + 1]
                IN OrContinue(g, orSafeDone(g)))
          ELSE IF IsRecoverable(LastRet.err)
          THEN (LET g == [f EXCEPT !.allError = Append(@, LastRet.err), !.i = @ + 1]
                IN OrContinue(g, orSafeDone(g)))
          ELSE Return(Ret(LastRet.consumed, <<>>, LastRet.err))
    /\ UNCHANGED <<pctx, testPC, stderr, src, alias, plan, outcomes>>

\* Fast mode running the loop of orSafe
orFastAsSafe ==
    /\ Running /\ Top.p.op = "or" /\ Ctx.OrMode = OrModeFast
    /\ LET f == Top
       IN IF f.pc = "start" THEN OrContinue(f, orSafeDone(f))
          ELSE IF ~LastRet.err.isErr
          THEN (LET g == [f EXCEPT !.best = LongestMatch(@, LastRet, 0), !.i = @ + 1]
                IN OrContinue(g, orSafeDone(g)))
          ELSE IF ErrorsIs(LastRet.err, ErrNotMatch) \/ ErrorsIs(LastRet.err, ErrRepeatCount)
          THEN (LET g == [f EXCEPT !.allError = Append(@, LastRet.err), !.i = @ + 1]
                IN OrContinue(g, orSafeDone(g)))
          ELSE Return(Ret(LastRet.consumed, <<>>, LastRet.err))
    /\ UNCHANGED <<pctx, testPC, stderr, src, alias, plan, outcomes>>

\* orFast
orFast ==
    /\ Running /\ Top.p.op = "or" /\ Ctx.OrMode = OrModeFast
    /\ LET f == Top
       IN IF f.pc = "start" THEN OrContinue(f, OrNoMatch(f))
          ELSE IF ~LastRet.err.isErr
          THEN Return(Ret(LastRet.consumed, LastRet.newTokens, NoErr))
          ELSE IF IsRecoverable(LastRet.err)
          THEN (LET g == [f EXCEPT !.allError = Append(@, LastRet.err), !.i = @ + 1]
                IN OrContinue(g, OrNoMatch(g)))
          ELSE Return(Ret(LastRet.consumed, <<>>, LastRet.err))
    /\ UNCHANGED <<pctx, testPC, stderr, src, alias, plan, outcomes>>

orTryFastDone(g) ==
    IF g.first.hasResult
    THEN Ret(g.first.consumed, g.first.newTokens, NoErr)
    ELSE OrNoMatch(g)

\* the suggestion orTryFast prints when the loop ends with locals g
orTryFastWarning(g) ==
    IF /\ g.first.hasResult /\ g.best.hasResult
       /\ (g.first.index # g.best.index \/ g.first.consumed # g.best.consumed)
    THEN <<[pos |-> getFirstPos(g.src),
            fast |-> g.first.index + 1, fastConsumed |-> g.first.consumed,
            longest |-> g.best.index + 1, longestConsumed |-> g.best.consumed]>>
    ELSE <<>>

\* orTryFast
orTryFast ==
    /\ Running /\ Top.p.op = "or" /\ Ctx.OrMode = OrModeTryFast
    /\ LET f == Top
           g == IF f.pc = "start" THEN f
                ELSE IF ~LastRet.err.isErr
                THEN [f EXCEPT !.first = FirstMatch(@, LastRet, f.i),
                               !.best = LongestMatch(@, LastRet, f.i),
                               !.i = @ + 1]
                ELSE [f EXCEPT !.allError = Append(@, LastRet.err), !.i = @ + 1]
       IN IF f.pc = "resume" /\ LastRet.err.isErr /\ ~IsRecoverable(LastRet.err)
          THEN /\ Return(Ret(LastRet.consumed, <<>>, LastRet.err))
               /\ stderr' = stderr
          ELSE /\ OrContinue(g, orTryFastDone(g))
               /\ stderr' = IF g.i < Len(g.p.kids) THEN stderr
                            ELSE stderr \o orTryFastWarning(g)
    /\ UNCHANGED <<pctx, testPC, src, alias, plan, outcomes>>

----------------------------------------------------------------------------
(* Trans *)

\* the transformer functions of the test file, by the name Trans captured:
\* "expression" is expressionTransform, "zero" the one of the recursion test,
\* "add" is addTransform, "prefix" the one of TestAlias
Transformer(tf, tokens) ==
    CASE tf = "expression" ->
           LET a == tokens[1].Val
               b == tokens[3].Val
               op == tokens[2].Raw
               result == CASE op = "+" -> a + b
                           [] op = "-" -> a - b
                           [] op = "*" -> a * b
                           [] op = "/" -> a \div b
                           [] OTHER -> 0
           IN [tokens |-> <<Token("digit", tokens[1].Pos, "", result)>>, err |-> NoErr]
      [] tf = "zero" ->
           [tokens |-> <<Token("digit", tokens[1].Pos, "", 0)>>, err |-> NoErr]
      [] tf = "prefix" ->
           LET a == tokens[2].Val
               b == tokens[3].Val
               op == tokens[1].Raw
               result == CASE op = "+" -> a + b
                           [] op = "-" -> a - b
                           [] op = "*" -> a * b
                           [] op = "/" -> a \div b
                           [] OTHER -> 0
           IN [tokens |-> <<Token("digit", tokens[1].Pos, "", result)>>, err |-> NoErr]
      [] tf = "add" ->
           [tokens |-> <<Token("digit", tokens[1].Pos, "", tokens[1].Val + tokens[2].Val)>>,
            err |-> NoErr]

\* the scratch context checkTransformSafety creates
SafetyTestPC(pc) ==
    [NewParseContext EXCEPT !.MaxDepth = pc.MaxDepth, !.OrMode = pc.OrMode,
                            !.CheckTransformSafety = FALSE]

\* checkTransformSafety's verdict once the parser has reparsed the transformed
\* tokens with result r: the warning Trans prints, if any
SafetyWarning(transformedTokens, r) ==
    IF /\ ~r.err.isErr
       /\ r.consumed = Len(transformedTokens)
       /\ r.newTokens = transformedTokens
    THEN <<[pos |-> getFirstPos(transformedTokens), fast |-> 0, fastConsumed |-> 0,
            longest |-> 0, longestConsumed |-> 0]>>
    ELSE <<>>

\* the reparse run on the context Trans itself was called with
SafetyContextOfCaller(f) == f.cx

\* "parser(testPC, transformedTokens)": the reparse runs on the scratch context
SafetyContext(f) == "test"

TransStep ==
    /\ Running /\ Top.p.op = "trans"
    /\ LET f == Top
           tr == Transformer(f.p.name, LastRet.newTokens)
       IN IF f.pc = "start"
          THEN /\ Invoke(f, f.p.kids[1], f.src)
               /\ UNCHANGED <<testPC, stderr>>
          ELSE IF f.pc = "check"
          THEN \* back from the parser call inside checkTransformSafety
               /\ stderr' = stderr \o SafetyWarning(f.converted, LastRet)
               /\ Return(Ret(f.offset, f.converted, NoErr))
               /\ testPC' = testPC
          ELSE IF LastRet.err.isErr
          THEN /\ Return(Ret(0, f.src, LastRet.err))
               /\ UNCHANGED <<testPC, stderr>>
          ELSE IF tr.err.isErr
          THEN /\ Return(Ret(0, f.src, tr.err))
               /\ UNCHANGED <<testPC, stderr>>
          ELSE IF Ctx.OrMode = OrModeSafe /\ Ctx.CheckTransformSafety /\ Len(tr.tokens) # 0
          THEN /\ testPC' = SafetyTestPC(Ctx)
               /\ InvokeOn([f EXCEPT !.pc = "check", !.offset = LastRet.consumed,
                                     !.converted = tr.tokens],
                           f.p.kids[1], tr.tokens, SafetyContext(f))
               /\ stderr' = stderr
          ELSE /\ Return(Ret(LastRet.consumed, tr.tokens, NoErr))
               /\ UNCHANGED <<testPC, stderr>>
    /\ UNCHANGED <<pctx, src, alias, plan, outcomes>>

----------------------------------------------------------------------------
(* Repeat and Optional *)

\* RepeatCount taken for an error that only ends the loop, like NotMatch
RepeatBreaksOnRepeatCount(err) ==
    ErrorsIs(err, ErrNotMatch) \/ ErrorsIs(err, ErrRepeatCount)

\* "errors.Is(err, ErrNotMatch)": the inner error that only ends the loop
RepeatBreaks(err) == ErrorsIs(err, ErrNotMatch)

\* the logs of a context are short enough to be followed further
LogsBounded(pc) == Len(pc.Errors) < MaxIter /\ Len(pc.Traces) < MaxIter

\* the locals of a Repeat loop past MaxIter iterations: the iteration just
\* made is not counted, i stays above every min of the model
Uncounted(g) == [g EXCEPT !.i = @ - 1, !.rets = SubSeq(@, 1, Len(@) - 1)]

\* the loop condition and the "offset >= len(tokens)" break
RepeatGoesOn(g) ==
    /\ g.i < g.p.max \/ g.p.max = -1
    /\ g.offset < Len(g.src)

\* the count check with "i <= min" for "i < min"
RepeatDoneOffByOne(g) ==
    IF g.i <= g.p.min
    THEN Ret(0, g.src, NewErrRepeatCount(getFirstPos(g.src)))
    ELSE Ret(g.offset, g.converted, NoErr)

\* after the loop
RepeatDone(g) ==
    IF g.i < g.p.min
    THEN Ret(0, g.src, NewErrRepeatCount(getFirstPos(g.src)))
    ELSE Ret(g.offset, g.converted, NoErr)

RepeatStep ==
    /\ Running /\ Top.p.op = "repeat"
    /\ LET f == Top
           g == IF f.pc = "resume"
                THEN [f EXCEPT !.converted = @ \o LastRet.newTokens,
                               !.offset = @ + LastRet.consumed,
                               !.i = @ + 1]
                ELSE f
       IN IF f.pc = "resume" /\ RepeatBreaks(LastRet.err)
          THEN Return(RepeatDone(f))
          ELSE IF f.pc = "resume" /\ LastRet.err.isErr
          THEN Return(Ret(0, <<>>, LastRet.err))
          ELSE IF RepeatGoesOn(g)
          THEN IF g.i < MaxIter
               THEN Invoke(g, g.p.kids[1], SliceFrom(g.src, g.offset))
               ELSE \* the loop goes on, i is followed no further
                    /\ LogsBounded(Ctx)
                    /\ Invoke(Uncounted(g), g.p.kids[1], SliceFrom(g.src, g.offset))
          ELSE Return(RepeatDone(g))
    /\ UNCHANGED <<pctx, testPC, stderr, src, alias, plan, outcomes>>

\* Optional forgiving NotMatch only
OptionalResultNotMatchOnly(r) ==
    IF ~r.err.isErr THEN Ret(r.consumed, r.newTokens, NoErr)
    ELSE IF ErrorsIs(r.err, ErrNotMatch) THEN Ret(0, <<>>, NoErr)
    ELSE Ret(0, <<>>, r.err)

\* what Optional returns when its parser returned r
OptionalResult(r) ==
    IF ~r.err.isErr THEN Ret(r.consumed, r.newTokens, NoErr)
    ELSE IF IsRecoverable(r.err) THEN Ret(0, <<>>, NoErr)
    ELSE Ret(0, <<>>, r.err)

OptionalStep ==
    /\ Running /\ Top.p.op = "optional"
    /\ IF Top.pc = "start"
       THEN Invoke(Top, Top.p.kids[1], Top.src)
       ELSE Return(OptionalResult(LastRet))
    /\ UNCHANGED <<pctx, testPC, stderr, src, alias, plan, outcomes>>

----------------------------------------------------------------------------
(* Recover *)

\* the closure Recover wraps in Trace("healing", ...)
Healing(skipUntil) == Trace("healing", Node("heal", "", <<skipUntil>>, 0, 0))

\* Recover's closure: the precondition check, the body, and on the body's
\* failure the log entry ("src[0].Pos") and the healing scan
RecoverStep ==
    /\ Running /\ Top.p.op = "recover"
    /\ LET f == Top
       IN CASE f.pc = "start" ->
                 /\ InvokeOn([f EXCEPT !.pc = "searched"],
                             Trace("precondition-check", f.p.kids[1]), f.src, f.cx)
                 /\ UNCHANGED <<pctx, testPC>>
            [] f.pc = "searched" ->
                 /\ IF LastRet.err.isErr
                    THEN Return(Ret(0, <<>>, LastRet.err))
                    ELSE InvokeOn([f EXCEPT !.pc = "processed"],
                                  Trace("process", f.p.kids[2]), f.src, f.cx)
                 /\ UNCHANGED <<pctx, testPC>>
            [] f.pc = "processed" ->
                 IF ~LastRet.err.isErr
                 THEN /\ Return(Ret(LastRet.consumed, LastRet.newTokens, NoErr))
                      /\ UNCHANGED <<pctx, testPC>>
                 ELSE IF Len(f.src) = 0
                 THEN \* src[0] on an empty slice panics
                      /\ stack' = stack /\ status' = "panic"
                      /\ UNCHANGED <<pctx, testPC>>
                 ELSE /\ SetCtx(AppendError(Ctx, LastRet.err))
                      /\ InvokeOn([f EXCEPT !.pc = "healed"],
                                  Healing(f.p.kids[3]), f.src, f.cx)
            [] f.pc = "healed" ->
                 /\ Return(LastRet)
                 /\ UNCHANGED <<pctx, testPC>>
    /\ UNCHANGED <<stderr, src, alias, plan, outcomes>>

\* the healing scan counting only what skipUntil consumed
HealConsumedNoOffset(i, consumed) == consumed

\* the healing scan skipping one token more than skipUntil matched
HealConsumedPastMatch(i, consumed) == i + consumed + 1

\* "return i + consumed, nil, nil"
HealConsumed(i, consumed) == i + consumed

\* the healing closure: skipUntil at src[i:] for i = 0, 1, ... until it matches
HealStep ==
    /\ Running /\ Top.p.op = "heal"
    /\ LET f == Top
           g == IF f.pc = "resume" THEN [f EXCEPT !.i = @ + 1] ELSE f
       IN IF f.pc = "resume" /\ ~LastRet.err.isErr
          THEN Return(Ret(HealConsumed(f.i, LastRet.consumed), <<>>, NoErr))
          ELSE IF g.i < Len(g.src)
          THEN Invoke(g, g.p.kids[1], SliceFrom(g.src, g.i))
          ELSE Return(Ret(Len(g.src), <<>>, NoErr))
    /\ UNCHANGED <<pctx, testPC, stderr, src, alias, plan, outcomes>>

----------------------------------------------------------------------------
(* Lookahead, NotFollowedBy, Peek and Label *)

\* Lookahead that reports what its parser consumed
LookaheadResultConsuming(r) ==
    IF r.err.isErr THEN Ret(0, <<>>, r.err) ELSE Ret(r.consumed, <<>>, NoErr)

\* what Lookahead returns when its parser returned r
LookaheadResult(r) ==
    IF r.err.isErr THEN Ret(0, <<>>, r.err) ELSE Ret(0, <<>>, NoErr)

\* what NotFollowedBy returns when its parser, called on tokens, returned r
NotFollowedByResult(r, tokens) ==
    IF ~r.err.isErr THEN Ret(0, <<>>, NewErrNotMatch(getFirstPos(tokens)))
    ELSE Ret(0, <<>>, NoErr)

\* what Peek returns when its parser returned r
PeekResult(r) ==
    IF r.err.isErr THEN Ret(0, <<>>, r.err) ELSE Ret(0, r.newTokens, NoErr)

\* what Label returns when its parser, called on tokens, returned r
LabelResult(r, tokens) ==
    IF r.err.isErr THEN Ret(r.consumed, <<>>, NewErrNotMatch(getFirstPos(tokens)))
    ELSE Ret(r.consumed, r.newTokens, NoErr)

LookaheadStep ==
    /\ Running /\ Top.p.op = "lookahead"
    /\ IF Top.pc = "start"
       THEN Invoke(Top, Top.p.kids[1], Top.src)
       ELSE Return(LookaheadResult(LastRet))
    /\ UNCHANGED <<pctx, testPC, stderr, src, alias, plan, outcomes>>

NotFollowedByStep ==
    /\ Running /\ Top.p.op = "not-followed-by"
    /\ IF Top.pc = "start"
       THEN Invoke(Top, Top.p.kids[1], Top.src)
       ELSE Return(NotFollowedByResult(LastRet, Top.src))
    /\ UNCHANGED <<pctx, testPC, stderr, src, alias, plan, outcomes>>

PeekStep ==
    /\ Running /\ Top.p.op = "peek"
    /\ IF Top.pc = "start"
       THEN Invoke(Top, Top.p.kids[1], Top.src)
       ELSE Return(PeekResult(LastRet))
    /\ UNCHANGED <<pctx, testPC, stderr, src, alias, plan, outcomes>>

LabelStep ==
    /\ Running /\ Top.p.op = "label"
    /\ IF Top.pc = "start"
       THEN Invoke(Top, Top.p.kids[1], Top.src)
       ELSE Return(LabelResult(LastRet, Top.src))
    /\ UNCHANGED <<pctx, testPC, stderr, src, alias, plan, outcomes>>

----------------------------------------------------------------------------
(* Expected, Fail and Alias *)

ExpectedStep ==
    /\ At("expected", "start")
    /\ Return(Ret(0, <<>>, NewErrNotMatch(getFirstPos(Top.src))))
    /\ UNCHANGED <<pctx, testPC, stderr, src, alias, plan, outcomes>>

FailStep ==
    /\ At("fail", "start")
    /\ Return(Ret(0, <<>>, NewErrCritical(getFirstPos(Top.src))))
    /\ UNCHANGED <<pctx, testPC, stderr, src, alias, plan, outcomes>>

\* the body called as it is, with no Trace around it
AliasCallUntraced(op, name) == alias[name]

\* "Trace(name+"-alias", i.body)" and "Trace(a.name+"-instance", a.body)": the
\* body is read when the closure is called, and a.name is never assigned
AliasCall(op, name) ==
    Trace(IF op = "alias" THEN name \o "-alias" ELSE "-instance", alias[name])

\* the placeholder closure of NewAlias and the closure define returns: both
\* wrap the body the Alias holds when they are called
AliasStep ==
    /\ Running /\ Top.p.op \in {"alias", "instance"}
    /\ IF Top.pc = "start"
       THEN Invoke(Top, AliasCall(Top.p.op, Top.p.name), Top.src)
       ELSE Return(LastRet)
    /\ UNCHANGED <<pctx, testPC, stderr, src, alias, plan, outcomes>>

----------------------------------------------------------------------------
(* Evaluate and the driver *)

\* EvaluateWithRawTokens: each string becomes Token{Type: "raw", Pos: {Index: i}}
RawTokens(raws) == [k \in 1..Len(raws) |-> Token("raw", k - 1, raws[k], 0)]

\* a test creates its context, sets the options and calls EvaluateWithRawTokens;
\* Evaluate resets the context and calls the parser
EvaluateCall ==
    /\ status = "running" /\ stack = <<>> /\ Len(outcomes) < Len(plan)
    /\ plan[Len(outcomes) + 1].api = "Evaluate"
    /\ LET run == plan[Len(outcomes) + 1]
           tokens == RawTokens(src)
       IN /\ pctx' = [NewParseContext EXCEPT
                         !.MaxDepth = run.MaxDepth, !.TraceEnable = run.TraceEnable,
                         !.OrMode = run.OrMode,
                         !.CheckTransformSafety = run.CheckTransformSafety,
                         !.Tokens = tokens, !.Pos = 0, !.Traces = <<>>,
                         !.Errors = <<>>, !.Depth = 0]
          /\ stack' = <<[NewFrame(Node("evaluate", "", <<run.parser>>, 0, 0), tokens, "main")
                            EXCEPT !.pc = "resume"],
                        NewFrame(run.parser, tokens, "main")>>
    /\ UNCHANGED <<testPC, stderr, src, alias, plan, outcomes, status>>

\* Evaluate after the parser returned
EvaluateReturn ==
    /\ At("evaluate", "resume")
    /\ LET r == LastRet
           logged == IF r.err.isErr THEN AppendError(pctx, r.err) ELSE pctx
           inRange == r.consumed \in 0..Len(pctx.Tokens)
           final == [logged EXCEPT !.Pos = r.consumed, !.Results = r.newTokens,
                                   !.RemainedTokens = SliceFrom(logged.Tokens, r.consumed)]
           \* "return nil, errors.Join(errs...)" or "return result, nil" with
           \* result made by make([]T, len(newTokens))
           out == IF Len(final.Errors) > 0
                  THEN [result |-> <<>>, isNil |-> TRUE, err |-> ErrorsJoin(final.Errors)]
                  ELSE [result |-> ValsOf(r.newTokens), isNil |-> FALSE, err |-> NoErr]
       IN IF inRange
          THEN /\ pctx' = final
               /\ outcomes' = Append(outcomes, [result |-> out.result, isNil |-> out.isNil,
                                                err |-> out.err, pctx |-> final])
               /\ stack' = <<>>
               /\ status' = IF Len(outcomes) + 1 = Len(plan) THEN "done" ELSE "running"
          ELSE \* pctx.Tokens[consumed:] panics
               /\ pctx' = [logged EXCEPT !.Pos = r.consumed, !.Results = r.newTokens]
               /\ status' = "panic"
               /\ UNCHANGED <<outcomes, stack>>
    /\ UNCHANGED <<testPC, stderr, src, alias, plan>>

----------------------------------------------------------------------------
(* Find (easy.go) *)

\* a test creates a context and calls Find(ctx, parser, tokens) on raw tokens
FindCall ==
    /\ status = "running" /\ stack = <<>> /\ Len(outcomes) < Len(plan)
    /\ plan[Len(outcomes) + 1].api = "Find"
    /\ pctx' = NewParseContext
    /\ stack' = <<NewFrame(Node("find", "", <<plan[Len(outcomes) + 1].parser>>, 0, 0),
                           RawTokens(src), "main")>>
    /\ UNCHANGED <<testPC, stderr, src, alias, plan, outcomes, status>>

\* Find's results with remained counted from the start of the input
FindResultFromStart(tokens, i, r) ==
    [skipped |-> SubSeq(tokens, 1, i), match |-> r.newTokens, consume |-> r.consumed,
     remained |-> SliceFrom(tokens, r.consumed), found |-> TRUE]

\* "return skipped, match, consume, remained, true" after the parser returned
\* r at offset i
FindResult(tokens, i, r) ==
    [skipped |-> SubSeq(tokens, 1, i), match |-> r.newTokens, consume |-> r.consumed,
     remained |-> SliceFrom(tokens, i + r.consumed), found |-> TRUE]

\* "return nil, nil, 0, nil, false"
FindNothing ==
    [skipped |-> <<>>, match |-> <<>>, consume |-> 0, remained |-> <<>>, found |-> FALSE]

\* Find returns out: to the test that called it, or to Split, SplitN or
\* FindIter
FindReturn(out) ==
    IF Len(stack) = 1
    THEN /\ outcomes' = Append(outcomes, out)
         /\ stack' = <<>>
         /\ status' = IF Len(outcomes) + 1 = Len(plan) THEN "found" ELSE "running"
    ELSE Return(out) /\ outcomes' = outcomes

\* Find's loop: the parser at tokens[i:] for i = 0, 1, ... until it matches
FindStep ==
    /\ Running /\ Top.p.op = "find"
    /\ LET f == Top
           g == IF f.pc = "resume" THEN [f EXCEPT !.i = @ + 1] ELSE f
       IN IF f.pc = "resume" /\ ~LastRet.err.isErr
          THEN IF f.i + LastRet.consumed <= Len(f.src)
               THEN FindReturn(FindResult(f.src, f.i, LastRet))
               ELSE \* tokens[i+consume:] panics
                    stack' = stack /\ status' = "panic" /\ outcomes' = outcomes
          ELSE IF g.i < Len(g.src)
          THEN Invoke(g, g.p.kids[1], SliceFrom(g.src, g.i)) /\ outcomes' = outcomes
          ELSE FindReturn(FindNothing)
    /\ UNCHANGED <<pctx, testPC, stderr, src, alias, plan>>

----------------------------------------------------------------------------
(* Split, SplitN and FindIter (easy.go) *)

\* Consume[T]{Skipped, Match, Consume, Last}
Consume(skipped, match, consume, last) ==
    [Skipped |-> skipped, Match |-> match, Consume |-> consume, Last |-> last]

\* the locals of the three functions next to those every invocation has
SplitLocals(tokens) ==
    [rest |-> tokens, result |-> <<>>, foundLastSeparator |-> FALSE,
     count |-> 1, index |-> 0, indexes |-> <<>>, stopped |-> FALSE]

\* a test creates a context and calls Split, SplitN or FindIter on raw tokens
SplitCall ==
    /\ status = "running" /\ stack = <<>> /\ Len(outcomes) < Len(plan)
    /\ plan[Len(outcomes) + 1].api \in {"Split", "SplitN", "FindIter"}
    /\ LET run == plan[Len(outcomes) + 1]
       IN /\ pctx' = NewParseContext
          /\ stack' = <<NewFrame(Node(run.api, "", <<run.parser>>, 0, run.n),
                                 RawTokens(src), "main")
                           @@ SplitLocals(RawTokens(src))>>
    /\ UNCHANGED <<testPC, stderr, src, alias, plan, outcomes, status>>

\* the function returns its segments to the test
SplitReturn(g, segments) ==
    /\ outcomes' = Append(outcomes, [segments |-> segments, indexes |-> g.indexes,
                                     stopped |-> g.stopped])
    /\ stack' = <<>>
    /\ status' = IF Len(outcomes) + 1 = Len(plan) THEN "returned" ELSE "running"

\* the locals of a Split loop past MaxSegments segments: the segment just
\* found is not recorded
Unrecorded(g) ==
    [g EXCEPT !.result = SubSeq(@, 1, Len(@) - 1),
              !.count = @ - 1, !.index = @ - 1,
              !.indexes = IF Len(@) > 0 THEN SubSeq(@, 1, Len(@) - 1) ELSE @,
              !.rets = SubSeq(@, 1, Len(@) - 1)]

\* "before, match, consume, after, found := Find(ctx, sep, rest)"
SplitFinds(g) ==
    /\ IF Len(g.result) < MaxSegments
       THEN Invoke(g, Node("find", "", g.p.kids, 0, 0), g.rest)
       ELSE \* the loop goes on, the segments are followed no further
            /\ LogsBounded(Ctx)
            /\ Invoke(Unrecorded(g), Node("find", "", g.p.kids, 0, 0), g.rest)
    /\ outcomes' = outcomes

\* the locals after "if found { result = append(...); rest = after; ... }"
SplitFound(f, r) ==
    [f EXCEPT !.result = Append(@, Consume(r.skipped, r.match, r.consume, FALSE)),
              !.rest = r.remained,
              !.foundLastSeparator = TRUE,
              !.count = @ + 1,
              !.index = @ + 1]

\* Split without the empty segment after a trailing separator
SplitEndNoTrailing(g) == g.result

\* Split after its loop: the empty segment when the last token was a separator
SplitEnd(g) ==
    IF g.foundLastSeparator
    THEN Append(g.result, Consume(<<>>, <<>>, 0, TRUE))
    ELSE g.result

\* Split's loop
SplitStep ==
    /\ Running /\ Top.p.op = "Split"
    /\ LET f == Top
           r == LastRet
           g == IF f.pc = "resume" /\ r.found THEN SplitFound(f, r) ELSE f
       IN IF f.pc = "resume" /\ ~r.found
          THEN SplitReturn(f, Append(f.result, Consume(f.rest, <<>>, 0, TRUE)))
          ELSE IF Len(g.rest) > 0
          THEN SplitFinds(g)
          ELSE SplitReturn(g, SplitEnd(g))
    /\ UNCHANGED <<pctx, testPC, stderr, src, alias, plan>>

\* SplitN after its loop: what is left, when something is left
SplitNEnd(g) ==
    IF Len(g.rest) > 0
    THEN Append(g.result, Consume(g.rest, <<>>, 0, TRUE))
    ELSE g.result

\* SplitN's loop; n is the max of the node
SplitNStep ==
    /\ Running /\ Top.p.op = "SplitN"
    /\ LET f == Top
           r == LastRet
           n == f.p.max
           g == IF f.pc = "resume" /\ r.found THEN SplitFound(f, r) ELSE f
       IN IF f.pc = "resume" /\ ~r.found
          THEN SplitReturn(f, SplitNEnd(f))
          ELSE IF (n <= 0 \/ g.count < n) /\ Len(g.rest) > 0
          THEN SplitFinds(g)
          ELSE SplitReturn(g, SplitNEnd(g))
    /\ UNCHANGED <<pctx, testPC, stderr, src, alias, plan>>

\* a yield counting from one
YieldedFromOne(g, index) == [g EXCEPT !.indexes = Append(@, index + 1)]

\* "yield(index, ...)": the index the consumer is given is recorded
Yielded(g, index) == [g EXCEPT !.indexes = Append(@, index)]

\* the function FindIter returns, run by a range loop whose body may stop
\* the iteration at any segment: a segment yielded is added to result
FindIterStep ==
    /\ Running /\ Top.p.op = "FindIter"
    /\ LET f == Top
           r == LastRet
           g == IF f.pc = "resume" /\ r.found THEN Yielded(SplitFound(f, r), f.index) ELSE f
       IN IF f.pc = "resume" /\ ~r.found
          THEN SplitReturn(Yielded(f, f.index),
                           Append(f.result, Consume(f.rest, <<>>, 0, TRUE)))
          ELSE \/ \* yield returned false
                  /\ f.pc = "resume"
                  /\ SplitReturn([g EXCEPT !.stopped = TRUE], g.result)
               \/ IF Len(g.rest) > 0
                  THEN SplitFinds(g)
                  ELSE SplitReturn(IF g.foundLastSeparator THEN Yielded(g, g.index) ELSE g,
                                   SplitEnd(g))
    /\ UNCHANGED <<pctx, testPC, stderr, src, alias, plan>>

----------------------------------------------------------------------------
(* The grammars and inputs explored *)

RawAlphabet == {"1", "+"}

Inputs == UNION {[1..n -> RawAlphabet] : n \in 0..MaxLen}

\* the two- and three-literal sequences of the longest-match tests
shortMatch == SeqOf(<<String, String>>)
longMatch == SeqOf(<<String, String, String>>)

\* Expression() of the test file
Expression == Trace("expression", Trans(SeqOf(<<Digit, Operator, Digit>>), "expression"))

\* alternatives combined pairwise under Or
Alternatives ==
    {Digit, shortMatch, longMatch, GenErrRepeatCount, GenErrCritical, Optional(Digit),
     Expected}

OrGrammars ==
    {Or(<<a, b>>) : a \in Alternatives, b \in Alternatives} \cup
    {Or(<<shortMatch, longMatch, Digit>>),
     Or(<<Digit, String, GenErrCritical>>),
     Or(<<GenErrNotMatch, GenErrRepeatCount>>),
     Or(<<Digit, Fail>>), Or(<<Fail, Digit>>),
     Or(<<Digit, String>>), Or(<<String, Digit>>),
     Or(<<Digit, GenErrCritical, String>>),
     SeqOf(<<Or(<<Digit, shortMatch>>), Optional(Operator)>>),
     Optional(Or(<<GenErrNotMatch, GenErrRepeatCount>>)),
     Repeat("r", 0, -1, Or(<<GenErrNotMatch, GenErrRepeatCount>>)),
     Repeat("r", 1, -1, Or(<<Digit, Operator>>)),
     Repeat("r", 0, 2, Or(<<SeqOf(<<Digit, Operator>>), Digit>>))}

RepeatGrammars ==
    {Repeat("digits", min, max, Digit) : min \in 0..2, max \in {-1, 0, 1, 2}} \cup
    {Repeat("errors", 0, -1, p) : p \in {GenErrNotMatch, GenErrRepeatCount, GenErrCritical}} \cup
    {Repeat("pairs", min, -1, SeqOf(<<Digit, Operator>>)) : min \in 0..1} \cup
    {Repeat("outer", 0, -1, Repeat("inner", 1, 2, Digit)),
     Repeat("outer", 0, -1, SeqOf(<<Operator, Repeat("inner", 1, -1, Digit)>>)),
     Repeat("outer", 1, -1, SeqOf(<<Digit, Fail>>)),
     Repeat("outer", 0, -1, Or(<<Digit, Fail>>))}

OtherGrammars ==
    {Optional(p) : p \in {Digit, GenErrNotMatch, GenErrRepeatCount, GenErrCritical,
                          Fail, Expected, shortMatch, OneOrMore("digits", Digit)}} \cup
    {Digit, Expression,
     SeqOf(<<Digit, Optional(Operator), ZeroOrMore("digits", Digit)>>)}

\* the left-recursive grammar of TestStackOverflowProtection, the same without
\* the transformation, and a right-recursive grammar
LeftRecursive ==
    Or(<<Trans(SeqOf(<<AliasOf("expression"), Operator, Digit>>), "zero"), Digit>>)
LeftRecursivePlain ==
    Or(<<SeqOf(<<AliasOf("expression"), Operator, Digit>>), Digit>>)
RightRecursive ==
    Or(<<SeqOf(<<Digit, Operator, AliasOf("expression")>>), Digit>>)

AliasBodies == {LeftRecursive, LeftRecursivePlain, RightRecursive}

\* a grammar without aliases: the one Alias of the model is defined but unused
Unused == [a \in {"expression"} |-> Fail]

Grammars ==
    {[parser |-> g, alias |-> Unused] :
        g \in OrGrammars \cup RepeatGrammars \cup OtherGrammars} \cup
    {[parser |-> InstanceOf("expression"), alias |-> [a \in {"expression"} |-> b]] :
        b \in AliasBodies}

MaxDepths == {0, 2, 5}

\* Sum() of the test file
Sum == Trace("add", Trans(SeqOf(<<Digit, Digit, EOL>>), "add"))

\* the Recover grammars of TestErrorType, and Recover over a search that
\* matches the empty input, a body that may match, a skipUntil that never does
RecoverGrammars ==
    {SeqOf(<<Or(<<Recover(Digit, SeqOf(<<Digit, e, Digit>>), Digit), Digit>>), Digit>>) :
        e \in {GenErrNotMatch, GenErrRepeatCount, GenErrCritical}} \cup
    {Recover(Digit, Expression, Operator),
     Recover(Optional(Digit), GenErrCritical, Operator),
     Recover(Digit, GenErrRepeatCount, Fail)}

\* the grammars of TestLookahead, TestNotFollowedBy and TestPeek, over parsers
\* that match one token, match three, or fail with each kind of error
Lookaheads ==
    {Digit, Operator, Expression, GenErrRepeatCount, GenErrCritical, SeqOf(<<Digit, Digit>>)}
LookaheadGrammars ==
    {SeqOf(<<Lookahead(p), Digit>>) : p \in Lookaheads} \cup
    {SeqOf(<<Peek(p), Digit, Operator>>) : p \in Lookaheads} \cup
    {SeqOf(<<Digit, NotFollowedBy(p)>>) : p \in Lookaheads} \cup
    {NotFollowedBy(Fail), Or(<<SeqOf(<<Peek(Operator), Operator>>), Digit>>)}

\* the grammars of TestLabel, and Label over parsers failing with each kind
LabelGrammars ==
    {Label("number", Digit),
     Label("arithmetic expression", SeqOf(<<Digit, Operator, Digit>>)),
     Or(<<Label("number", Digit), Label("text", String)>>),
     Or(<<Label("failure", Fail), Digit>>),
     Optional(Label("failure", GenErrCritical)),
     Repeat("labelled", 0, -1, Label("count", GenErrRepeatCount)),
     SeqOf(<<Label("number", Digit), Label("pair", SeqOf(<<Operator, Digit>>))>>)}

\* TestRecover: lines "N N ;", at most one of them malformed
RecoverPattern == ZeroOrMore("sum expressions", Recover(Digit, Sum, EOL))

WellFormed == <<"1", "1", ";">>
Malformed == {<<"1", ";">>, <<"1", "1", "1", ";">>, <<"1", "+", ";">>,
              <<"+", "1", ";">>, <<";">>}

RECURSIVE Flatten(_)
Flatten(lines) == IF lines = <<>> THEN <<>> ELSE Head(lines) \o Flatten(Tail(lines))

LineSeqs ==
    UNION {{ls \in [1..n -> {WellFormed} \cup Malformed] :
               Cardinality({k \in 1..n : ls[k] \in Malformed}) <= 1} : n \in 0..MaxLines}

\* depth limits the nesting of RecoverPattern stays below
LineMaxDepths == {0, 6}

\* the grammar with the alternatives of every Or listed in reverse order
RECURSIVE Reordered(_)
Reordered(p) ==
    LET kids == [k \in 1..Len(p.kids) |-> Reordered(p.kids[k])]
    IN [p EXCEPT !.kids = IF p.op = "or"
                          THEN [k \in 1..Len(kids) |-> kids[Len(kids) + 1 - k]]
                          ELSE kids]

\* the grammar with every Label(label, p) replaced by p
RECURSIVE Unlabelled(_)
Unlabelled(p) ==
    IF p.op = "label" THEN Unlabelled(p.kids[1])
    ELSE [p EXCEPT !.kids = [k \in 1..Len(p.kids) |-> Unlabelled(p.kids[k])]]

\* the evaluations of one test, each on a fresh context: the grammar under each
\* Or mode, then its reordering under the default mode
PlanOf(g, maxDepth, traceEnable) ==
    [k \in 1..4 |->
        [api |-> "Evaluate",
         OrMode |-> <<OrModeSafe, OrModeFast, OrModeTryFast, OrModeSafe>>[k],
         MaxDepth |-> maxDepth, TraceEnable |-> traceEnable,
         CheckTransformSafety |-> FALSE,
         parser |-> IF k = 4 THEN Reordered(g) ELSE g]]

\* the evaluations of a test under the default mode only: the grammar and,
\* when it has labels, the grammar without them
DefaultPlanOf(g, maxDepth) ==
    [k \in 1..(IF Unlabelled(g) = g THEN 1 ELSE 2) |->
        [api |-> "Evaluate", OrMode |-> NewParseContext.OrMode,
         MaxDepth |-> maxDepth, TraceEnable |-> TRUE,
         CheckTransformSafety |-> FALSE,
         parser |-> IF k = 2 THEN Unlabelled(g) ELSE g]]

\* the parsers of TestFind and TestFind2: a literal, a transformed sequence;
\* and parsers that match without consuming or never match
FindParsers ==
    {Operator, Digit, Expression, SeqOf(<<Operator, Digit>>), Optional(Operator),
     GenErrCritical}

\* one call of Find on a fresh context
FindPlanOf(parser) ==
    <<[api |-> "Find", OrMode |-> NewParseContext.OrMode,
       MaxDepth |-> NewParseContext.MaxDepth, TraceEnable |-> NewParseContext.TraceEnable,
       CheckTransformSafety |-> NewParseContext.CheckTransformSafety,
       parser |-> parser]>>

\* the separators: rawLiteral(",") of the tests, a separator that may match
\* without consuming, one that never matches
Separators == {Operator, Optional(Operator), GenErrCritical}

\* the n of SplitN
SplitLimits == {0, 1, 2, MaxLen + 2}

\* one call of Split, SplitN or FindIter on a fresh context
SplitRun(api, sep, n) ==
    [api |-> api, OrMode |-> NewParseContext.OrMode,
     MaxDepth |-> NewParseContext.MaxDepth, TraceEnable |-> NewParseContext.TraceEnable,
     CheckTransformSafety |-> NewParseContext.CheckTransformSafety,
     parser |-> sep, n |-> n]

\* a test calls SplitN or FindIter and then Split, with the same separator
SplitPlans(sep) ==
    {<<SplitRun("SplitN", sep, n), SplitRun("Split", sep, 0)>> : n \in SplitLimits} \cup
    {<<SplitRun("FindIter", sep, 0), SplitRun("Split", sep, 0)>>}

\* the raw tokens of TestSeqNode, and the same expression cut after the operator
SeqNodeInputs == {<<"100", "+", "200">>, <<"10", "+">>}

\* TestSeqNode: Expression() on a context as NewParseContext leaves it
SeqNodePlan == DefaultPlanOf(Expression, NewParseContext.MaxDepth)

\* the body of TestAlias: a digit, or an operator before two expressions
PrefixBody ==
    Or(<<Digit, Trans(SeqOf(<<Operator, AliasOf("expression"), AliasOf("expression")>>),
                      "prefix")>>)

\* two aliases whose bodies refer to each other
MutualExpression == Or(<<AliasOf("term"), Digit>>)
MutualTerm == SeqOf(<<Operator, AliasOf("expression")>>)

\* the bodies bound to the aliases "expression" and "term"
AliasBindings ==
    {[a \in {"expression", "term"} |-> IF a = "expression" THEN e ELSE Fail] :
        e \in {PrefixBody, RightRecursive, LeftRecursivePlain}} \cup
    {[a \in {"expression", "term"} |-> IF a = "expression" THEN MutualExpression
                                       ELSE MutualTerm]}

\* the depth limit under which a parser one level deeper does what a parser
\* does under maxDepth: 0 is no limit
OneDeeper(maxDepth) == IF maxDepth = 0 THEN 0 ELSE maxDepth + 1

\* a test evaluates the parser the binding function returned, then the
\* placeholder, then the body itself under a limit one level lower
AliasPlanOf(name, body, maxDepth) ==
    [k \in 1..3 |->
        [api |-> "Evaluate", OrMode |-> NewParseContext.OrMode,
         MaxDepth |-> IF k = 3 THEN maxDepth ELSE OneDeeper(maxDepth),
         TraceEnable |-> TRUE, CheckTransformSafety |-> FALSE,
         parser |-> <<InstanceOf(name), AliasOf(name), body>>[k]]]

AliasMaxDepths == {0, 3}

\* transformed parsers: Expression(), one whose output it parses again to the
\* same tokens, one under Or, one whose reparse logs an error through Recover
SafetyGrammars ==
    {Expression, Trans(Digit, "zero"),
     Or(<<Trans(SeqOf(<<Digit, Optional(Operator)>>), "zero"), shortMatch>>),
     Trans(SeqOf(<<Recover(Digit, GenErrRepeatCount, Operator), Digit>>), "zero")}

\* a test evaluates under the default mode with pc.CheckTransformSafety set,
\* then without
SafetyPlanOf(g, maxDepth) ==
    [k \in 1..2 |->
        [api |-> "Evaluate", OrMode |-> OrModeSafe, MaxDepth |-> maxDepth,
         TraceEnable |-> TRUE, CheckTransformSafety |-> (k = 1), parser |-> g]]

\* a Recover that logs and heals, as an Or alternative shorter than the next
\* one, and under Lookahead, Peek and NotFollowedBy
Logging == Recover(Digit, GenErrRepeatCount, Digit)
LoggingGrammars ==
    {Or(<<Logging, SeqOf(<<Digit, Digit>>)>>),
     SeqOf(<<Lookahead(Logging), Digit>>),
     SeqOf(<<Peek(Logging), Digit>>),
     SeqOf(<<Operator, NotFollowedBy(Logging)>>)}

\* Repeat without an upper limit over parsers that may succeed without
\* consuming: Optional, None, Lookahead
ZeroRepeats ==
    {ZeroOrMore("many", Optional(Digit)), OneOrMore("many", None),
     ZeroOrMore("many", Lookahead(Operator))}

\* the same over a Recover healed by an empty match, which logs an error in
\* every iteration
HealedRepeat == ZeroOrMore("many", Recover(Operator, GenErrRepeatCount, Optional(Digit)))

\* one evaluation on a context as NewParseContext leaves it: no tracing
PlainPlanOf(g) ==
    <<[api |-> "Evaluate", OrMode |-> NewParseContext.OrMode,
       MaxDepth |-> NewParseContext.MaxDepth, TraceEnable |-> NewParseContext.TraceEnable,
       CheckTransformSafety |-> NewParseContext.CheckTransformSafety, parser |-> g]>>

\* Before in a sequence and in a repeated sequence
BeforeGrammars ==
    {SeqOf(<<Before, Operator, Before>>),
     ZeroOrMore("items", SeqOf(<<Before, Operator>>))}

\* what one behaviour runs: an input, the Alias bodies and a plan
Cases ==
    {[src |-> i, alias |-> g.alias, plan |-> PlanOf(g.parser, d, TRUE)] :
        i \in Inputs, g \in Grammars, d \in MaxDepths} \cup
    {[src |-> i, alias |-> Unused, plan |-> DefaultPlanOf(g, d)] :
        i \in Inputs, g \in RecoverGrammars \cup LookaheadGrammars \cup LabelGrammars,
        d \in MaxDepths} \cup
    {[src |-> Flatten(ls), alias |-> Unused, plan |-> DefaultPlanOf(RecoverPattern, d)] :
        ls \in LineSeqs, d \in LineMaxDepths} \cup
    {[src |-> i, alias |-> Unused, plan |-> FindPlanOf(p)] :
        i \in Inputs, p \in FindParsers} \cup
    {[src |-> i, alias |-> Unused, plan |-> pl] :
        i \in Inputs, pl \in UNION {SplitPlans(sep) : sep \in Separators}} \cup
    {[src |-> i, alias |-> Unused, plan |-> SeqNodePlan] : i \in SeqNodeInputs} \cup
    {[src |-> i, alias |-> Unused, plan |-> DefaultPlanOf(g, NewParseContext.MaxDepth)] :
        i \in Inputs, g \in BeforeGrammars} \cup
    {[src |-> i, alias |-> Unused, plan |-> PlainPlanOf(g)] :
        i \in Inputs, g \in ZeroRepeats \cup {HealedRepeat}} \cup
    {[src |-> i, alias |-> Unused, plan |-> DefaultPlanOf(g, NewParseContext.MaxDepth)] :
        i \in Inputs, g \in LoggingGrammars} \cup
    {[src |-> i, alias |-> Unused, plan |-> SafetyPlanOf(g, NewParseContext.MaxDepth)] :
        i \in Inputs, g \in SafetyGrammars} \cup
    {[src |-> i, alias |-> [a \in {"expression"} |-> LeftRecursive],
      plan |-> SafetyPlanOf(InstanceOf("expression"), 5)] : i \in Inputs} \cup
    {[src |-> i, alias |-> b, plan |-> AliasPlanOf("expression", b["expression"], d)] :
        i \in Inputs, b \in AliasBindings, d \in AliasMaxDepths}

Init ==
    /\ \E c \in Cases :
          /\ src = c.src
          /\ alias = c.alias
          /\ plan = c.plan
    /\ pctx = NewParseContext
    /\ testPC = NewParseContext
    /\ stderr = <<>>
    /\ stack = <<>>
    /\ outcomes = <<>>
    /\ status = "running"

Next ==
    \/ EvaluateCall
    \/ EvaluateReturn
    \/ FindCall
    \/ FindStep
    \/ SplitCall
    \/ SplitStep
    \/ SplitNStep
    \/ FindIterStep
    \/ TraceEnter
    \/ TraceExit
    \/ LeafStep
    \/ SeqStep
    \/ orSafe
    \/ orFast
    \/ orTryFast
    \/ TransStep
    \/ RepeatStep
    \/ OptionalStep
    \/ LookaheadStep
    \/ NotFollowedByStep
    \/ PeekStep
    \/ LabelStep
    \/ RecoverStep
    \/ HealStep
    \/ ExpectedStep
    \/ FailStep
    \/ AliasStep

Spec == Init /\ [][Next]_vars

FairSpec == Spec /\ WF_vars(Next)

----------------------------------------------------------------------------
(* Vocabulary of the properties *)

\* the running closure returns in this step, and what it returns
Returns == Len(stack') = Len(stack) - 1
Returned == stack'[Len(stack')].rets[Len(stack'[Len(stack')].rets)]

\* the running closure calls a parser in this step, and the new invocation
Calls == Len(stack') = Len(stack) + 1
Callee == stack'[Len(stack')]

IsKind(err, kind) == err.isErr /\ kind \in err.kinds
\* an error Or and Optional give up on: neither NotMatch nor RepeatCount
IsFatal(err) == err.isErr /\ ErrNotMatch \notin err.kinds /\ ErrRepeatCount \notin err.kinds

\* Trace-wrapped invocations of context cx that passed the depth check and
\* have not returned yet
ActiveTraces(cx) ==
    Cardinality({k \in 1..Len(stack) :
        stack[k].p.op = "trace" /\ stack[k].pc = "resume" /\ stack[k].cx = cx})

\* names of the trace records of a finished run
TraceNames(k) ==
    {outcomes[k].pctx.Traces[j].Name : j \in 1..Len(outcomes[k].pctx.Traces)}

----------------------------------------------------------------------------
(* C1 *)

\* C1: whatever a Trace-wrapped invocation that passed the depth check
\* returns, Depth is back at its value at entry when it returns: at every
\* moment Depth counts exactly the invocations that passed the check and have
\* not yet returned. So the alternatives of an Or all start at the same Depth,
\* and Depth is 0 when Evaluate returns.
C1_DepthRestored ==
    status \in {"running", "done"} =>
        /\ pctx.Depth = ActiveTraces("main")
        /\ stack = <<>> => pctx.Depth = 0

\* an Or, itself inside traced invocations, has just got a StackOverflow back
\* from a traced alternative that had passed the depth check
C1_Witness ==
    /\ At("or", "resume")
    /\ Top.p.kids[Top.i + 1].op = "trace"
    /\ IsKind(LastRet.err, ErrStackOverflow)
    /\ pctx.MaxDepth > 0 /\ pctx.Depth < pctx.MaxDepth
    /\ pctx.Depth = ActiveTraces("main") /\ pctx.Depth > 0

----------------------------------------------------------------------------
(* C2 *)

\* what one entry into a Trace-wrapped parser does
C2_GuardStep ==
    (At("trace", "start") /\ Top.cx = "main") =>
        IF pctx.MaxDepth > 0 /\ pctx.Depth >= pctx.MaxDepth
        THEN /\ Returns
             /\ IsKind(Returned.err, ErrStackOverflow)
             /\ pctx'.Depth = pctx.Depth
        ELSE \/ status' = "fault"
             \/ /\ Calls
                /\ Callee.p = Top.p.kids[1] /\ Callee.pc = "start"
                /\ pctx'.Depth = pctx.Depth + 1

C2_DepthBounded == pctx.MaxDepth > 0 => pctx.Depth <= pctx.MaxDepth

C2_NoOverflowUnlimited ==
    pctx.MaxDepth = 0 =>
        /\ \A k \in 1..Len(stack) : \A j \in 1..Len(stack[k].rets) :
              ~IsKind(stack[k].rets[j].err, ErrStackOverflow)
        /\ \A j \in 1..Len(pctx.Errors) : ~IsKind(pctx.Errors[j], ErrStackOverflow)

\* C2: entered with MaxDepth > 0 and Depth >= MaxDepth, a Trace-wrapped parser
\* returns StackOverflow without calling the wrapped parser and leaves Depth
\* alone; otherwise it adds exactly one to Depth and calls the wrapped parser.
\* Depth never exceeds a non-zero MaxDepth, and no StackOverflow exists while
\* MaxDepth is 0.
C2_DepthGuard ==
    /\ [](C2_DepthBounded /\ C2_NoOverflowUnlimited)
    /\ [][C2_GuardStep]_vars

\* a caller holds the StackOverflow of a refused entry, Depth at the limit
C2_Witness ==
    /\ Running /\ Top.rets # <<>>
    /\ Top.p.op = "seq"
    /\ IsKind(LastRet.err, ErrStackOverflow)
    /\ pctx.MaxDepth > 0 /\ pctx.Depth = pctx.MaxDepth

----------------------------------------------------------------------------
(* C3 *)

\* the grammars whose alias is the first element of the first alternative of
\* its own body, on a non-empty input, under a small non-zero MaxDepth
C3_LeftRecursiveCase ==
    /\ alias["expression"] \in {LeftRecursive, LeftRecursivePlain}
    /\ \A k \in 1..Len(plan) :
          plan[k].parser = InstanceOf("expression") /\ plan[k].MaxDepth > 0
    /\ Len(src) > 0

\* C3: every evaluation of a left-recursive alias grammar on a non-empty input
\* with a small non-zero MaxDepth comes to an end, and the error Evaluate
\* returns is a StackOverflow.
C3_LeftRecursionOverflows ==
    /\ C3_LeftRecursiveCase ~> (status = "done")
    /\ [](C3_LeftRecursiveCase =>
            \A k \in 1..Len(outcomes) : IsKind(outcomes[k].err, ErrStackOverflow))

C3_Witness ==
    /\ C3_LeftRecursiveCase /\ status = "done"
    /\ alias["expression"] = LeftRecursive
    /\ plan[1].MaxDepth = 5
    /\ src = <<"+">>
    /\ IsKind(outcomes[1].err, ErrStackOverflow)

----------------------------------------------------------------------------
(* C4 *)

\* the Or implementation returns in Safe mode, every alternative has been
\* tried, some matched and none failed fatally
C4_SafeReturn ==
    /\ At("or", "resume") /\ Ctx.OrMode = OrModeSafe /\ Returns
    /\ \E j \in 1..Len(Top.rets) : ~Top.rets[j].err.isErr
    /\ \A j \in 1..Len(Top.rets) : ~IsFatal(Top.rets[j].err)

C4_Longest ==
    C4_SafeReturn =>
        /\ Len(Top.rets) = Len(Top.p.kids)
        /\ ~Returned.err.isErr
        /\ \E j \in 1..Len(Top.rets) :
              /\ ~Top.rets[j].err.isErr
              /\ Returned.consumed = Top.rets[j].consumed
              /\ Returned.newTokens = Top.rets[j].newTokens
              /\ \A m \in 1..Len(Top.rets) :
                    ~Top.rets[m].err.isErr =>
                        /\ Top.rets[m].consumed <= Top.rets[j].consumed
                        /\ m < j => Top.rets[m].consumed < Top.rets[j].consumed

\* the fourth evaluation runs the grammar with every Or's alternatives in
\* reverse order, in Safe mode like the first
C4_OrderIndependent ==
    (status = "done" /\ Len(plan) = 4 /\ ~outcomes[1].err.isErr) =>
        /\ ~outcomes[4].err.isErr
        /\ outcomes[4].pctx.Pos = outcomes[1].pctx.Pos

\* C4: in Safe mode, when some alternative matches and none fails fatally, Or
\* returns the result of the alternative that consumed the most tokens, the
\* earliest-listed among those tied for the most; the consumed count is the
\* same with the alternatives listed in another order.
C4_SafeLongestMatch == [][C4_Longest]_vars /\ []C4_OrderIndependent

\* the two-literal alternative listed first, three matching tokens: Safe
\* returns three tokens in both orders where Fast returns two
C4_Witness ==
    /\ status = "done"
    /\ plan[1].parser = Or(<<shortMatch, longMatch>>)
    /\ plan[4].parser = Or(<<longMatch, shortMatch>>)
    /\ Len(src) = 3
    /\ ~outcomes[1].err.isErr /\ Len(outcomes[1].pctx.Results) = 3
    /\ outcomes[4].pctx.Pos = 3
    /\ outcomes[2].pctx.Pos = 2

----------------------------------------------------------------------------
(* C5 *)

\* C5: an alternative's error that is neither NotMatch nor RepeatCount makes
\* Or return that very error at once, in every mode and also when an earlier
\* alternative has matched: no later alternative is called.
C5_Abort ==
    (At("or", "resume") /\ IsFatal(LastRet.err)) =>
        /\ Returns
        /\ Returned.err = LastRet.err

C5_FatalAbortsOr == [][C5_Abort]_vars

\* Digit matches "1" (the Fast run returns it), the second alternative fails
\* critically, and the Safe run ends with that error never having entered the
\* third alternative
C5_Witness ==
    /\ status = "done"
    /\ plan[1].parser = Or(<<Digit, GenErrCritical, String>>)
    /\ src = <<"1">>
    /\ plan[1].MaxDepth = 5
    /\ ~outcomes[2].err.isErr
    /\ IsKind(outcomes[1].err, ErrCritical)
    /\ "err-critical" \in TraceNames(1)
    /\ "string" \notin TraceNames(1)

----------------------------------------------------------------------------
(* C6 *)

C6_FirstMatchReturns ==
    (At("or", "resume") /\ Ctx.OrMode = OrModeFast /\ ~LastRet.err.isErr) =>
        /\ Returns
        /\ Returned = LastRet
        /\ UNCHANGED <<pctx, stderr>>

C6_NoEarlierMatch ==
    \A k \in 1..Len(stack) :
        (stack[k].p.op = "or" /\ pctx.OrMode = OrModeFast /\ status = "running") =>
            \A j \in 1..(Len(stack[k].rets) - 1) : stack[k].rets[j].err.isErr

\* C6: in Fast mode Or returns the result of the first alternative, in
\* argument order, that matches, and calls no alternative listed after it.
C6_FastFirstMatch == [][C6_FirstMatchReturns]_vars /\ []C6_NoEarlierMatch

\* the Fast run of Or(shortMatch, longMatch) on three tokens consumed two and
\* entered one Seq only; the Safe run entered both
C6_Witness ==
    /\ status = "done" /\ Len(plan) = 4
    /\ plan[2].parser = Or(<<shortMatch, longMatch>>)
    /\ plan[2].OrMode = OrModeFast
    /\ Len(src) = 3
    /\ plan[2].MaxDepth = 5
    /\ outcomes[2].pctx.Pos = 2
    /\ Cardinality({j \in 1..Len(outcomes[2].pctx.Traces) :
                       outcomes[2].pctx.Traces[j].Name = "seq"
                       /\ outcomes[2].pctx.Traces[j].TraceType = "Enter"}) = 1
    /\ Cardinality({j \in 1..Len(outcomes[1].pctx.Traces) :
                       outcomes[1].pctx.Traces[j].Name = "seq"
                       /\ outcomes[1].pctx.Traces[j].TraceType = "Enter"}) = 2

----------------------------------------------------------------------------
(* C7 *)

\* C7: the TryFast evaluation of a grammar ends with the same consumed count,
\* produced tokens and error as its Fast evaluation.
C7_TryFastAsFast ==
    (status = "done" /\ Len(plan) = 4) =>
        /\ outcomes[3].pctx.Pos = outcomes[2].pctx.Pos
        /\ outcomes[3].pctx.Results = outcomes[2].pctx.Results
        /\ outcomes[3].err = outcomes[2].err
        /\ outcomes[3].result = outcomes[2].result

\* the Fast run of a grammar ended with a match and no error, its TryFast run
\* on the same input with a Critical error and nothing consumed
C7_Witness ==
    /\ status = "done" /\ Len(plan) = 4
    /\ plan[2].parser = Or(<<Digit, Fail>>)
    /\ plan[2].OrMode = OrModeFast /\ plan[3].OrMode = OrModeTryFast
    /\ src = <<"1">>
    /\ ~outcomes[2].err.isErr /\ outcomes[2].pctx.Pos = 1
    /\ IsKind(outcomes[3].err, ErrCritical) /\ outcomes[3].pctx.Pos = 0

----------------------------------------------------------------------------
(* C8 *)

C8_OptionalReturn ==
    At("optional", "resume") =>
        /\ Returns
        /\ ~LastRet.err.isErr => Returned = LastRet
        /\ (IsKind(LastRet.err, ErrNotMatch) \/ IsKind(LastRet.err, ErrRepeatCount)) =>
              Returned = [consumed |-> 0, newTokens |-> <<>>, err |-> NoErr]
        /\ IsFatal(LastRet.err) =>
              /\ Returned.err = LastRet.err
              /\ Returned.consumed = 0

\* C8: Optional(p) returns p's result when p succeeds, succeeds with nothing
\* consumed and no tokens when p fails with NotMatch or RepeatCount, and
\* returns p's error unchanged when it is any other error.
C8_Optional == [][C8_OptionalReturn]_vars

\* the run of Optional over a parser failing with RepeatCount ended without
\* error, consumed nothing, and the log shows the parser's failure
C8_Witness ==
    /\ status = "done"
    /\ plan[1].parser = Optional(GenErrRepeatCount)
    /\ Len(src) > 0
    /\ ~outcomes[1].err.isErr
    /\ outcomes[1].pctx.Pos = 0 /\ outcomes[1].pctx.Results = <<>>
    /\ \E j \in 1..Len(outcomes[1].pctx.Traces) :
          /\ outcomes[1].pctx.Traces[j].Name = "err-repeat-count"
          /\ IsKind(outcomes[1].pctx.Traces[j].Result.err, ErrRepeatCount)

----------------------------------------------------------------------------
(* C9 *)

\* the tokens consumed, and those produced, by the first k inner results
RECURSIVE SumConsumed(_, _)
SumConsumed(rets, k) == IF k = 0 THEN 0 ELSE SumConsumed(rets, k - 1) + rets[k].consumed

RECURSIVE ConcatTokens(_, _)
ConcatTokens(rets, k) ==
    IF k = 0 THEN <<>> ELSE ConcatTokens(rets, k - 1) \o rets[k].newTokens

\* the successful matches among the inner results a Repeat has got
Matches(rets) == {j \in 1..Len(rets) : ~rets[j].err.isErr}

\* Repeat's closure is running and no inner call failed other than by NotMatch
C9_Case ==
    /\ Running /\ Top.p.op = "repeat"
    /\ \A j \in 1..Len(Top.rets) :
          Top.rets[j].err.isErr => IsKind(Top.rets[j].err, ErrNotMatch)

C9_RepeatStep ==
    C9_Case =>
        LET rets == Top.rets
            k == Cardinality(Matches(rets))
            used == SumConsumed(rets, k)
        IN /\ Matches(rets) = 1..k /\ Len(rets) <= k + 1
           /\ Returns \/ Calls \/ status' = "fault"
           /\ Calls =>
                 /\ Len(rets) = k
                 /\ Top.p.max = -1 \/ k < Top.p.max
                 /\ used < Len(Top.src)
                 /\ Callee.p = Top.p.kids[1]
                 /\ Callee.src = SliceFrom(Top.src, used)
           /\ Returns =>
                 /\ \/ Len(rets) = k + 1
                    \/ Top.p.max # -1 /\ k >= Top.p.max
                    \/ used >= Len(Top.src)
                 /\ IF k < Top.p.min
                    THEN /\ Returned.err.kinds = {ErrRepeatCount} /\ Returned.err.isErr
                         /\ Returned.consumed = 0
                    ELSE Returned = [consumed |-> used,
                                     newTokens |-> ConcatTokens(rets, k),
                                     err |-> NoErr]

\* C9: Repeat(label, min, max, p) calls p again and again on the input left,
\* stops at the first NotMatch, after max matches (never, for max = -1) or
\* when the input is used up, and then fails with RepeatCount exactly when it
\* counted fewer than min matches; otherwise it returns without error the
\* matches' tokens one after another and the sum of what they consumed.
C9_Repeat == [][C9_RepeatStep]_vars

\* two digits and then an operator under Repeat(1, -1, Digit): two matches,
\* no error
C9_Witness ==
    /\ status = "done"
    /\ plan[1].parser = Repeat("digits", 1, -1, Digit)
    /\ src = <<"1", "1", "+">>
    /\ ~outcomes[1].err.isErr
    /\ outcomes[1].result = <<1, 1>>
    /\ outcomes[1].pctx.Pos = 2

----------------------------------------------------------------------------
(* C10 *)

C10_Abort ==
    (At("repeat", "resume") /\ LastRet.err.isErr /\ ~IsKind(LastRet.err, ErrNotMatch)) =>
        /\ Returns
        /\ Returned = [consumed |-> 0, newTokens |-> <<>>, err |-> LastRet.err]

\* C10: an inner error of Repeat that is not NotMatch, a nested Repeat's
\* RepeatCount included, is returned by Repeat at once, also when min matches
\* have been counted already; the matches so far are dropped.
C10_RepeatPropagates == [][C10_Abort]_vars

\* Repeat(0, -1, Repeat(1, 2, Digit)) on a digit and an operator: the inner
\* Repeat matches once, fails with RepeatCount on the operator, and the
\* evaluation ends with that error and no result
C10_Witness ==
    /\ status = "done"
    /\ plan[1].parser = Repeat("outer", 0, -1, Repeat("inner", 1, 2, Digit))
    /\ src = <<"1", "+">>
    /\ outcomes[1].err.isErr /\ outcomes[1].err.kinds = {ErrRepeatCount}
    /\ outcomes[1].pctx.Pos = 0 /\ outcomes[1].pctx.Results = <<>>
    /\ \E j \in 1..Len(outcomes[1].pctx.Traces) :
          /\ outcomes[1].pctx.Traces[j].Name = "inner"
          /\ outcomes[1].pctx.Traces[j].TraceType = "Match"

----------------------------------------------------------------------------
(* C11 *)

\* Or goes on after an alternative's NotMatch or RepeatCount: to the next
\* alternative if there is one, else to its own return
C11_OrGoesOn ==
    (At("or", "resume")
     /\ (IsKind(LastRet.err, ErrNotMatch) \/ IsKind(LastRet.err, ErrRepeatCount))) =>
        IF Top.i + 1 < Len(Top.p.kids)
        THEN \/ status' = "fault"
             \/ Calls /\ Callee.p = Top.p.kids[Top.i + 2] /\ Callee.src = Top.src
        ELSE Returns

\* Repeat returns the matches collected so far, if they are min at least
C11_KeepsMatches ==
    LET k == Cardinality(Matches(Top.rets))
    IN /\ Returns
       /\ k >= Top.p.min =>
             Returned = [consumed |-> SumConsumed(Top.rets, k),
                         newTokens |-> ConcatTokens(Top.rets, k),
                         err |-> NoErr]

C11_RepeatStopsOnNotMatch ==
    (At("repeat", "resume") /\ IsKind(LastRet.err, ErrNotMatch)) => C11_KeepsMatches

C11_RepeatAbortsOnRepeatCount ==
    (At("repeat", "resume") /\ IsKind(LastRet.err, ErrRepeatCount)
     /\ ~IsKind(LastRet.err, ErrNotMatch)) =>
        /\ Returns
        /\ Returned = [consumed |-> 0, newTokens |-> <<>>, err |-> LastRet.err]

C11_RepeatStopsOnEither ==
    (At("repeat", "resume")
     /\ (IsKind(LastRet.err, ErrNotMatch) \/ IsKind(LastRet.err, ErrRepeatCount))) =>
        C11_KeepsMatches

----------------------------------------------------------------------------
(* C12 *)

\* one step of Seq's closure while every element called so far has matched
C12_SeqStep ==
    (Running /\ Top.p.op = "seq"
     /\ \A j \in 1..Len(Top.rets) : ~Top.rets[j].err.isErr) =>
        LET n == Len(Top.rets)
            used == SumConsumed(Top.rets, n)
        IN IF n < Len(Top.p.kids)
           THEN \/ status' = "fault"
                \/ /\ Calls
                   /\ Callee.p = Top.p.kids[n + 1]
                   /\ Callee.src = IF used < Len(Top.src)
                                   THEN [k \in 1..(Len(Top.src) - used) |-> Top.src[used + k]]
                                   ELSE <<>>
           ELSE /\ Returns
                /\ Returned = [consumed |-> used,
                               newTokens |-> ConcatTokens(Top.rets, n),
                               err |-> NoErr]

\* C12: Seq calls its elements in order, each on the tokens its predecessors
\* left over, and calls an element on an empty slice when none are left; when
\* all elements matched it returns their tokens and the sum of what they
\* consumed, so trailing Optional and ZeroOrMore elements succeed at the end
\* of the input.
C12_Seq == [][C12_SeqStep]_vars

\* Seq(Digit, Optional(Operator), ZeroOrMore(Digit)) on a single digit: both
\* trailing elements were entered and the evaluation consumed one token
C12_Witness ==
    /\ status = "done"
    /\ plan[1].parser = SeqOf(<<Digit, Optional(Operator), ZeroOrMore("digits", Digit)>>)
    /\ src = <<"1">>
    /\ plan[1].MaxDepth = 5
    /\ ~outcomes[1].err.isErr
    /\ outcomes[1].result = <<1>> /\ outcomes[1].pctx.Pos = 1
    /\ {"optional", "digits"} \subseteq TraceNames(1)

----------------------------------------------------------------------------
(* C13 *)

\* the context the running closure was called with, after the step
CtxNext == IF Top.cx = "test" THEN testPC' ELSE pctx'

\* Recover's body has just come back with an error (its search had matched)
C13_BodyFailed == At("recover", "processed") /\ LastRet.err.isErr

\* the step after the body's failure adds that error, once, to the log
C13_Logs == C13_BodyFailed => CtxNext.Errors = Append(Ctx.Errors, LastRet.err)

\* the healing scan calls skipUntil at the offsets 0, 1, 2, ... in turn and
\* returns i + c for the first offset i that matched, else the input's length
C13_Heals ==
    (Running /\ Top.p.op = "heal") =>
        LET rets == Top.rets
            hits == {k \in 1..Len(rets) : ~rets[k].err.isErr}
        IN /\ Calls => /\ hits = {}
                       /\ Callee.p = Top.p.kids[1]
                       /\ Callee.src = SliceFrom(Top.src, Len(rets))
           /\ Returns =>
                 /\ hits # {} \/ Len(rets) >= Len(Top.src)
                 /\ Returned =
                      Ret(IF hits = {} THEN Len(Top.src)
                          ELSE LET k == CHOOSE h \in hits : \A o \in hits : h <= o
                               IN (k - 1) + rets[k].consumed,
                          <<>>, NoErr)

\* Recover returns what the healing scan returned: no error, no tokens
C13_ReturnsHealed ==
    (At("recover", "healed") /\ Returns) =>
        /\ Returned = LastRet
        /\ ~Returned.err.isErr /\ Returned.newTokens = <<>>

\* C13 (as stated): when Recover's search matches and its body fails with any
\* error, Recover adds exactly one entry for that error to the error log,
\* returns no error and no tokens, and reports consumed = i + c for the
\* smallest offset i at which skipUntil matches, consuming c, or the length of
\* the input when skipUntil matches nowhere.
C13_AsStated == [][C13_Logs /\ C13_Heals /\ C13_ReturnsHealed]_vars

\* Recover was given no tokens, its search matched and its body failed: the
\* position of the first token is read from an empty slice
C13_Witness ==
    /\ status = "panic"
    /\ stack # <<>> /\ Top.p.op = "recover" /\ Top.pc = "processed"
    /\ Top.src = <<>> /\ LastRet.err.isErr
    /\ pctx.Errors = <<>>

----------------------------------------------------------------------------
(* C14 *)

\* the first evaluation of TestRecover's pattern has ended
C14_Parsed == status = "done" /\ plan[1].parser = RecoverPattern

C14_MalformedOf(ls) == {k \in 1..Len(ls) : ls[k] \in Malformed}

\* the log has n entries, the whole input was consumed, and every well-formed
\* line gave its sum
C14_Recovered(ls, n) ==
    /\ Len(outcomes[1].pctx.Errors) = n
    /\ outcomes[1].pctx.Pos = Len(src)
    /\ outcomes[1].pctx.RemainedTokens = <<>>
    /\ ValsOf(outcomes[1].pctx.Results) =
          [k \in 1..(Len(ls) - Cardinality(C14_MalformedOf(ls))) |-> 2]

----------------------------------------------------------------------------
(* C15 *)

\* a Critical or StackOverflow error
C15_Critical(err) ==
    err.isErr /\ (ErrCritical \in err.kinds \/ ErrStackOverflow \in err.kinds)

\* the closure of one of these combinators has just got such an error back
\* from the parser it called
C15_Raised(ops) ==
    /\ Running /\ Top.p.op \in ops
    /\ Top.rets # <<>> /\ C15_Critical(LastRet.err)

\* the closure then returns an error that is still Critical or StackOverflow
C15_Kept(ops) == C15_Raised(ops) => (Returns /\ C15_Critical(Returned.err))

\* C15 (as stated): Seq, Or, Repeat, Optional, Trans, Lookahead, Peek,
\* NotFollowedBy and Label never turn a nested parser's Critical or
\* StackOverflow error into a success or into a NotMatch or RepeatCount error:
\* each returns an error that is still Critical or StackOverflow.
C15_AsStated ==
    [][C15_Kept({"seq", "or", "repeat", "optional", "trans", "lookahead", "peek",
                 "not-followed-by", "label"})]_vars

\* Or(Label("failure", Fail), Digit) on one digit: Fail's Critical error,
\* relabelled NotMatch, let Or go on to Digit and the evaluation succeed
C15_Witness ==
    /\ status = "done"
    /\ plan[1].parser = Or(<<Label("failure", Fail), Digit>>)
    /\ src = <<"1">>
    /\ ~outcomes[1].err.isErr /\ outcomes[1].result = <<1>>
    /\ outcomes[1].pctx.Errors = <<>>

----------------------------------------------------------------------------
(* C16 *)

\* a grammar with labels and the same grammar without them have both been
\* evaluated, under the same mode and depth limit, on the same input
C16_Compared ==
    /\ status = "done" /\ Len(plan) = 2
    /\ plan[2].parser = Unlabelled(plan[1].parser)
    /\ plan[2].OrMode = plan[1].OrMode /\ plan[2].MaxDepth = plan[1].MaxDepth

\* C16 (as stated): Label is cosmetic: a grammar with labels and the grammar
\* without them agree, on every input, on whether the parse succeeds and, when
\* it does, on how many tokens it consumes and on the tokens it produces.
C16_AsStated ==
    C16_Compared =>
        /\ outcomes[1].err.isErr = outcomes[2].err.isErr
        /\ ~outcomes[1].err.isErr =>
              /\ outcomes[1].pctx.Pos = outcomes[2].pctx.Pos
              /\ outcomes[1].pctx.Results = outcomes[2].pctx.Results
              /\ outcomes[1].result = outcomes[2].result

\* Or(Label("failure", Fail), Digit) on one digit yields 1, and Or(Fail, Digit)
\* on the same input fails with the Critical error
C16_Witness ==
    /\ C16_Compared
    /\ plan[1].parser = Or(<<Label("failure", Fail), Digit>>)
    /\ plan[2].parser = Or(<<Fail, Digit>>)
    /\ src = <<"1">>
    /\ ~outcomes[1].err.isErr /\ outcomes[1].result = <<1>> /\ outcomes[1].pctx.Pos = 1
    /\ IsKind(outcomes[2].err, ErrCritical) /\ outcomes[2].pctx.Pos = 0

----------------------------------------------------------------------------
(* C17 *)

C17_Ops == {"lookahead", "peek", "not-followed-by"}

\* the closure calls its parser on the tokens it was given
C17_CallsParser ==
    (Running /\ Top.p.op \in C17_Ops /\ Top.pc = "start") =>
        \/ status' = "fault"
        \/ Calls /\ Callee.p = Top.p.kids[1] /\ Callee.src = Top.src

\* and returns, when its parser has returned: nothing consumed; Lookahead and
\* Peek the parser's error or its success, NotFollowedBy the opposite
C17_ReturnsZero ==
    (Running /\ Top.p.op \in C17_Ops /\ Top.pc = "resume") =>
        /\ Returns
        /\ Returned.consumed = 0
        /\ CASE Top.p.op = "lookahead" ->
                  IF LastRet.err.isErr
                  THEN Returned.err = LastRet.err
                  ELSE ~Returned.err.isErr /\ Returned.newTokens = <<>>
             [] Top.p.op = "peek" ->
                  IF LastRet.err.isErr
                  THEN Returned.err = LastRet.err
                  ELSE ~Returned.err.isErr /\ Returned.newTokens = LastRet.newTokens
             [] Top.p.op = "not-followed-by" ->
                  IF LastRet.err.isErr
                  THEN ~Returned.err.isErr /\ Returned.newTokens = <<>>
                  ELSE Returned.err.isErr /\ Returned.err.kinds = {ErrNotMatch}

\* Seq, after an element that is one of the three, calls the next element on
\* the tokens that element was called on
C17_NextSeesSame ==
    (Running /\ Top.p.op = "seq" /\ Top.rets # <<>> /\ Calls
     /\ Top.p.kids[Len(Top.rets)].op = "trace"
     /\ Top.p.kids[Len(Top.rets)].kids[1].op \in C17_Ops) =>
        Callee.src = SliceFrom(Top.src, SumConsumed(Top.rets, Len(Top.rets) - 1))

\* C17: Lookahead(p), Peek(p) and NotFollowedBy(p) call p on their input and
\* report zero consumed tokens; Lookahead and Peek succeed exactly when p does
\* (Peek with p's tokens, Lookahead with none) and otherwise return p's error
\* unchanged; NotFollowedBy succeeds exactly when p fails and fails with
\* NotMatch when p succeeds; the element after one of them in a Seq is called
\* on the tokens that one was called on.
C17_ZeroConsumed == [][C17_CallsParser /\ C17_ReturnsZero /\ C17_NextSeesSame]_vars

\* Seq(Peek(Expression), Digit, Operator) on "1 + 1": Peek gave the
\* expression's token, and Digit and Operator then consumed "1" and "+"
C17_Witness ==
    /\ status = "done"
    /\ plan[1].parser = SeqOf(<<Peek(Expression), Digit, Operator>>)
    /\ src = <<"1", "+", "1">>
    /\ ~outcomes[1].err.isErr
    /\ outcomes[1].pctx.Pos = 2
    /\ Len(outcomes[1].pctx.Results) = 3
    /\ outcomes[1].pctx.RemainedTokens = SliceFrom(outcomes[1].pctx.Tokens, 2)
    /\ {"peek", "expression", "operator"} \subseteq TraceNames(1)

----------------------------------------------------------------------------
(* C18 *)

\* the step in which Evaluate, its parser having returned, returns: the error
\* log afterwards and what Evaluate returned
C18_EvaluateStep ==
    At("evaluate", "resume") =>
        LET log == IF LastRet.err.isErr THEN Append(pctx.Errors, LastRet.err)
                   ELSE pctx.Errors
            out == outcomes'[Len(outcomes')]
        IN /\ status' # "panic"
           /\ Len(outcomes') = Len(outcomes) + 1
           /\ pctx'.Errors = log
           /\ out.err.isErr <=> Len(log) > 0
           /\ Len(log) > 0 =>
                 /\ out.isNil /\ out.result = <<>>
                 /\ \A j \in 1..Len(log) : \A kind \in log[j].kinds : ErrorsIs(out.err, kind)
                 /\ \A kind \in out.err.kinds : \E j \in 1..Len(log) : ErrorsIs(log[j], kind)
           /\ Len(log) = 0 =>
                 /\ ~out.isNil
                 /\ out.result = [k \in 1..Len(LastRet.newTokens) |-> LastRet.newTokens[k].Val]

\* C18: Evaluate appends an error returned by the top-level parser to the
\* error log, and then returns a non-nil error if and only if the log is
\* non-empty; that error is found to be of every kind a logged entry is of,
\* and the returned values are nil, also when the top-level parser succeeded
\* after a Recover logged an error; with an empty log it returns the produced
\* tokens' values in order.
C18_EvaluateResult == [][C18_EvaluateStep]_vars

\* the Recover grammar of TestErrorType on "1": Recover logged the Critical
\* error and healed, the last Digit then failed on the empty rest; Evaluate
\* returned nil and an error of both kinds
C18_WitnessJoined ==
    /\ status = "done"
    /\ plan[1].parser =
          SeqOf(<<Or(<<Recover(Digit, SeqOf(<<Digit, GenErrCritical, Digit>>), Digit), Digit>>),
                  Digit>>)
    /\ plan[1].MaxDepth = 0
    /\ src = <<"1">>
    /\ Len(outcomes[1].pctx.Errors) = 2
    /\ outcomes[1].isNil
    /\ outcomes[1].err.kinds = {ErrCritical, ErrNotMatch}

\* the same grammar on "1 1": the top-level parser succeeded, producing a
\* token, after Recover logged one error; Evaluate returned nil and the error
C18_Witness ==
    /\ status = "done"
    /\ plan[1].parser =
          SeqOf(<<Or(<<Recover(Digit, SeqOf(<<Digit, GenErrCritical, Digit>>), Digit), Digit>>),
                  Digit>>)
    /\ src = <<"1", "1">>
    /\ Len(outcomes[1].pctx.Errors) = 1
    /\ ValsOf(outcomes[1].pctx.Results) = <<1>> /\ outcomes[1].pctx.Pos = 2
    /\ outcomes[1].isNil /\ outcomes[1].result = <<>>
    /\ outcomes[1].err.kinds = {ErrCritical}

----------------------------------------------------------------------------
(* C19 *)

\* the tokens of a sequence, as a set
C19_TokensOf(tokens) == {tokens[k] : k \in 1..Len(tokens)}

\* C19 (as stated): when Evaluate returns an error, Results holds tokens that
\* parsers produced before the failure, none of them a token of the input
\* handed back, and RemainedTokens is the input from index Pos onward.
C19_AsStated ==
    \A k \in 1..Len(outcomes) :
        (plan[k].api = "Evaluate" /\ outcomes[k].err.isErr) =>
            LET c == outcomes[k].pctx
            IN /\ C19_TokensOf(c.Results) \cap C19_TokensOf(c.Tokens) = {}
               /\ c.RemainedTokens = SliceFrom(c.Tokens, c.Pos)

\* Seq(Peek(Digit), Digit, Operator) on "1 1": Peek and Digit each produced a
\* digit token before Operator failed, and Results is the two raw input tokens
C19_Witness ==
    /\ Len(outcomes) >= 1
    /\ plan[1].parser = SeqOf(<<Peek(Digit), Digit, Operator>>)
    /\ plan[1].MaxDepth = 0
    /\ src = <<"1", "1">>
    /\ IsKind(outcomes[1].err, ErrNotMatch)
    /\ outcomes[1].pctx.Results = RawTokens(src)
    /\ outcomes[1].pctx.Pos = 0
    /\ outcomes[1].pctx.RemainedTokens = RawTokens(src)

----------------------------------------------------------------------------
(* C20 *)

\* Find's loop calls the parser at the next offset of the input only after
\* it failed at every offset before
C20_TriesInOrder ==
    (Running /\ Top.p.op = "find" /\ Calls) =>
        /\ \A k \in 1..Len(Top.rets) : Top.rets[k].err.isErr
        /\ Callee.p = Top.p.kids[1]
        /\ Len(Top.rets) < Len(Top.src)
        /\ Callee.src = SubSeq(Top.src, Len(Top.rets) + 1, Len(Top.src))

\* what Find returns, from the parser's results at the offsets tried
C20_Returns ==
    (Running /\ Top.p.op = "find" /\ ~Calls /\ status' # "fault") =>
        LET tokens == Top.src
            rets == Top.rets
            hits == {k \in 1..Len(rets) : ~rets[k].err.isErr}
            \* returned to the test, or to Split, SplitN or FindIter
            out == IF Len(stack) = 1 THEN outcomes'[Len(outcomes')] ELSE Returned
        IN /\ status' # "panic"
           /\ IF Len(stack) = 1 THEN Len(outcomes') = Len(outcomes) + 1 ELSE Returns
           /\ IF hits = {}
              THEN /\ Len(rets) = Len(tokens)
                   /\ ~out.found /\ out.consume = 0
                   /\ out.skipped = <<>> /\ out.match = <<>> /\ out.remained = <<>>
              ELSE LET i == Len(rets) - 1
                       c == rets[i + 1].consumed
                   IN /\ hits = {i + 1}
                      /\ out.found /\ out.consume = c
                      /\ out.match = rets[i + 1].newTokens
                      /\ out.skipped = [k \in 1..i |-> tokens[k]]
                      /\ out.remained = [k \in 1..(Len(tokens) - i - c) |-> tokens[i + c + k]]
                      /\ out.skipped \o [k \in 1..c |-> tokens[i + k]] \o out.remained = tokens

\* C20: Find calls the parser at the offsets 0, 1, 2, ... of the input and,
\* for the smallest offset i at which it succeeds, consuming c tokens, returns
\* skipped = tokens[0..i), the parser's tokens, c, remained = tokens[i+c..) and
\* found = true, so that skipped, the c consumed tokens and remained are the
\* input in order; when the parser succeeds at no offset it returns found =
\* false with empty results and consumed 0.
C20_Find == [][C20_TriesInOrder /\ C20_Returns]_vars

\* Find(Seq(Operator, Digit)) on "1 + 1" skipped one token, consumed two for
\* two produced tokens and left none
C20_Witness ==
    /\ status = "found"
    /\ plan[1].api = "Find" /\ plan[1].parser = SeqOf(<<Operator, Digit>>)
    /\ src = <<"1", "+", "1">>
    /\ outcomes[1].found
    /\ outcomes[1].skipped = SubSeq(RawTokens(src), 1, 1)
    /\ outcomes[1].consume = 2 /\ Len(outcomes[1].match) = 2
    /\ outcomes[1].remained = <<>>

----------------------------------------------------------------------------
(* C21 *)

\* the input position after the first k segments: what they skipped and what
\* their separators consumed
RECURSIVE SegmentsEnd(_, _)
SegmentsEnd(segments, k) ==
    IF k = 0 THEN 0
    ELSE SegmentsEnd(segments, k - 1) + Len(segments[k].Skipped) + segments[k].Consume

\* segments that, Skipped tokens and separators in turn, cover tokens in order
SegmentsCover(segments, tokens) ==
    /\ \A k \in 1..Len(segments) :
          LET from == SegmentsEnd(segments, k - 1)
          IN segments[k].Skipped =
               [j \in 1..Len(segments[k].Skipped) |-> tokens[from + j]]
    /\ SegmentsEnd(segments, Len(segments)) = Len(tokens)

\* the segments Split returns in this step
C21_Segments == outcomes'[Len(outcomes')].segments

\* the step in which Split, called on a non-empty input, returns
C21_SplitReturns ==
    /\ Running /\ Top.p.op = "Split" /\ Len(stack) = 1
    /\ Len(outcomes') = Len(outcomes) + 1
    /\ Len(Top.src) > 0

C21_SplitStep ==
    C21_SplitReturns =>
        LET segs == C21_Segments
            n == Len(segs)
            finds == Top.rets
            matches == {k \in 1..Len(finds) : finds[k].found}
        IN /\ n = Cardinality(matches) + 1
           /\ \A k \in 1..(n - 1) :
                 /\ k \in matches
                 /\ segs[k] = [Skipped |-> finds[k].skipped, Match |-> finds[k].match,
                                Consume |-> finds[k].consume, Last |-> FALSE]
           /\ segs[n].Last /\ segs[n].Match = <<>> /\ segs[n].Consume = 0
           /\ SegmentsCover(segs, Top.src)
           /\ (segs[n].Skipped = <<>>) <=>
                 (n > 1 /\ SegmentsEnd(segs, n - 1) = Len(Top.src))

\* C21: on a non-empty input Split returns one segment per separator match
\* (the tokens before the separator and the separator's tokens, not flagged
\* Last) and then exactly one final segment without a match, the only one
\* flagged Last: an additional empty one when the input ends on a separator,
\* otherwise the tokens after the last separator.
C21_Split == [][C21_SplitStep]_vars

\* Split(Operator) on "1 +": the segment of the separator and the empty last
\* segment
C21_Witness ==
    /\ status = "returned"
    /\ plan[2].api = "Split" /\ plan[2].parser = Operator
    /\ src = <<"1", "+">>
    /\ Len(outcomes[2].segments) = 2
    /\ outcomes[2].segments[1].Skipped = SubSeq(RawTokens(src), 1, 1)
    /\ outcomes[2].segments[1].Consume = 1 /\ ~outcomes[2].segments[1].Last
    /\ outcomes[2].segments[2] = Consume(<<>>, <<>>, 0, TRUE)

----------------------------------------------------------------------------
(* C22 *)

\* a test has called SplitN and then Split with the same separator on the
\* same input, and both have returned
C22_Compared ==
    /\ status = "returned"
    /\ plan[1].api = "SplitN" /\ plan[2].api = "Split"
    /\ plan[1].parser = plan[2].parser

\* the segments flagged Last
LastFlagged(segments) == {k \in 1..Len(segments) : segments[k].Last}

\* C22 (as stated): for n > 0 SplitN returns at most n segments, the final one
\* holding the unsplit remainder of the input and being the only one flagged
\* Last; for n <= 0, or n larger than the number of segments Split returns,
\* SplitN returns the segments Split returns, with the same Last flags.
C22_AsStated ==
    C22_Compared =>
        LET n == plan[1].n
            limited == outcomes[1].segments
            all == outcomes[2].segments
        IN /\ (n > 0 /\ Len(src) > 0) =>
                 /\ Len(limited) \in 1..n
                 /\ LastFlagged(limited) = {Len(limited)}
                 /\ SegmentsCover(limited, RawTokens(src))
           /\ (n <= 0 \/ n > Len(all)) => limited = all

\* SplitN(Operator, n = 0) on "1 +" returns the separator's segment only, none
\* flagged Last, where Split returns it and the empty Last segment
C22_Witness ==
    /\ C22_Compared
    /\ plan[1].parser = Operator /\ plan[1].n = 0
    /\ src = <<"1", "+">>
    /\ Len(outcomes[1].segments) = 1 /\ LastFlagged(outcomes[1].segments) = {}
    /\ outcomes[2].segments = Append(outcomes[1].segments, Consume(<<>>, <<>>, 0, TRUE))

----------------------------------------------------------------------------
(* C23 *)

\* a test has ranged over FindIter and then called Split with the same
\* separator on the same input, and both have ended
C23_Compared ==
    /\ status = "returned"
    /\ plan[1].api = "FindIter" /\ plan[2].api = "Split"
    /\ plan[1].parser = plan[2].parser

\* the segments yielded are, with the indexes 0, 1, 2, ..., the segments of
\* Split in order: all of them when the consumer did not stop
C23_SameSegments ==
    C23_Compared =>
        LET yielded == outcomes[1].segments
            all == outcomes[2].segments
        IN /\ outcomes[1].indexes = [k \in 1..Len(yielded) |-> k - 1]
           /\ Len(yielded) <= Len(all)
           /\ yielded = [k \in 1..Len(yielded) |-> all[k]]
           /\ ~outcomes[1].stopped => yielded = all

\* the step in which the consumer stops the iteration: FindIter returns with
\* the segments yielded so far, one per search made, and searches no more
C23_StopsEarly ==
    (Running /\ Top.p.op = "FindIter"
     /\ Len(outcomes') = Len(outcomes) + 1 /\ outcomes'[Len(outcomes')].stopped) =>
        /\ ~Calls
        /\ Len(outcomes'[Len(outcomes')].segments) = Len(Top.rets)
        /\ Len(outcomes'[Len(outcomes')].segments) = Len(Top.result) + 1

\* C23: iterating FindIter to its end yields, with the indexes 0, 1, 2, ...,
\* the segments Split returns, in the same order and with the same Last flags;
\* when the consumer stops early no further segment is yielded and no further
\* separator is searched for.
C23_FindIter == []C23_SameSegments /\ [][C23_StopsEarly]_vars

\* FindIter(Operator) on "1 + 1" stopped at the first segment, of which Split
\* returns two
C23_Witness ==
    /\ C23_Compared
    /\ plan[1].parser = Operator
    /\ src = <<"1", "+", "1">>
    /\ outcomes[1].stopped
    /\ Len(outcomes[1].segments) = 1 /\ outcomes[1].indexes = <<0>>
    /\ Len(outcomes[2].segments) = 2
    /\ outcomes[1].segments[1] = outcomes[2].segments[1]

\* FindIter(Operator) on "1 +" run to its end: both segments of Split
C23_WitnessAll ==
    /\ C23_Compared
    /\ plan[1].parser = Operator
    /\ src = <<"1", "+">>
    /\ ~outcomes[1].stopped
    /\ outcomes[1].indexes = <<0, 1>>
    /\ outcomes[1].segments = outcomes[2].segments
    /\ outcomes[1].segments[2] = Consume(<<>>, <<>>, 0, TRUE)

----------------------------------------------------------------------------
(* C24 *)

\* TestSeqNode's evaluation of Expression() has ended
C24_Evaluated == status = "done" /\ plan = SeqNodePlan /\ src \in SeqNodeInputs

\* "100 + 200" evaluates to the single value 300
C24_Sums ==
    (C24_Evaluated /\ src = <<"100", "+", "200">>) =>
        /\ ~outcomes[1].err.isErr
        /\ outcomes[1].result = <<300>>

\* C24: Expression() on the raw tokens "100 + 200" returns the single value
\* 300; on "10 +" it fails with a NotMatch error that carries the position of
\* the missing trailing digit, the end of the input after the two tokens.
C24_AsStated ==
    /\ C24_Sums
    /\ (C24_Evaluated /\ src = <<"10", "+">>) =>
           /\ ErrorsIs(outcomes[1].err, ErrNotMatch)
           /\ \E k \in 1..Len(outcomes[1].pctx.Errors) :
                 /\ ErrorsIs(outcomes[1].pctx.Errors[k], ErrNotMatch)
                 /\ outcomes[1].pctx.Errors[k].pos = Len(src)

\* "10 +" has failed with the one NotMatch error Digit made for the empty
\* rest, whose Pos is nil
C24_Witness ==
    /\ C24_Evaluated /\ src = <<"10", "+">>
    /\ outcomes[1].isNil
    /\ ErrorsIs(outcomes[1].err, ErrNotMatch)
    /\ outcomes[1].pctx.Errors = <<NewErrNotMatch(NoPos)>>
    /\ outcomes[1].pctx.Pos = 0

----------------------------------------------------------------------------
(* C25 *)

\* a test has evaluated the bound parser, the placeholder and the body b
C25_Compared ==
    /\ status = "done" /\ Len(plan) = 3
    /\ plan[1].parser = InstanceOf("expression")
    /\ plan[2].parser = AliasOf("expression")
    /\ plan[3].parser = alias["expression"]

\* what an evaluation yields: consumed count, tokens, error and values
C25_Yield(k) ==
    [consumed |-> outcomes[k].pctx.Pos, tokens |-> outcomes[k].pctx.Results,
     errors |-> outcomes[k].pctx.Errors, err |-> outcomes[k].err,
     result |-> outcomes[k].result, isNil |-> outcomes[k].isNil]

\* the trace of evaluation k is the trace of the body, one level deeper, inside
\* one more entry and exit
C25_OneLevelDeeper(k) ==
    LET outer == outcomes[k].pctx.Traces
        inner == outcomes[3].pctx.Traces
    IN /\ Len(outer) = Len(inner) + 2
       /\ outer[1].Depth = 0 /\ outer[Len(outer)].Depth = 0
       /\ \A j \in 1..Len(inner) : outer[j + 1] = [inner[j] EXCEPT !.Depth = @ + 1]

C25_WitnessPrefix ==
    /\ C25_Compared
    /\ alias["expression"] = PrefixBody
    /\ src = <<"+", "1", "1">>
    /\ outcomes[2].result = <<2>>

\* the left-recursive body under a depth limit: a stack overflow through the
\* placeholder as through the body
C25_WitnessOverflow ==
    /\ C25_Compared
    /\ alias["expression"] = LeftRecursivePlain
    /\ plan[3].MaxDepth = 3 /\ plan[2].MaxDepth = 4
    /\ ErrorsIs(outcomes[2].err, ErrStackOverflow)
    /\ ErrorsIs(outcomes[3].err, ErrStackOverflow)

----------------------------------------------------------------------------
(* C26 *)

\* a test has evaluated a grammar with the safety check and then without it
C26_Compared ==
    /\ status = "done" /\ Len(plan) = 2
    /\ plan[1].CheckTransformSafety /\ ~plan[2].CheckTransformSafety
    /\ plan[1].parser = plan[2].parser

\* both evaluations end alike: values, error, and the whole main context with
\* its Pos, Results, Errors, Traces and Depth
C26_SameWithCheck ==
    C26_Compared =>
        [outcomes[1] EXCEPT !.pctx.CheckTransformSafety = FALSE] = outcomes[2]

\* Trans returns the consumed count of its parser with the transformer's output
C26_TransReturns ==
    (Running /\ Top.p.op = "trans" /\ Returns /\ ~Returned.err.isErr) =>
        /\ Returned.consumed = Top.rets[1].consumed
        /\ Returned.newTokens = Transformer(Top.p.name, Top.rets[1].newTokens).tokens

\* no step of the reparse on the scratch context, and not the return of Trans
\* after it, touches the main context
C26_ScratchOnly ==
    (Running /\ (Top.cx = "test" \/ At("trans", "check"))) => pctx' = pctx

\* C26: Trans returns the inner parser's consumed count with the transformer's
\* output tokens; with the safety check enabled in Safe mode it returns the same
\* consumed count, tokens and error as with it disabled, and the reparse on the
\* scratch context adds nothing to the main context's errors or traces and
\* leaves its Depth alone.
C26_Trans == []C26_SameWithCheck /\ [][C26_TransReturns /\ C26_ScratchOnly]_vars

\* the reparse of Digit's transformed token gave the same token back: the
\* warning was printed, and both evaluations ended alike
C26_Witness ==
    /\ C26_Compared
    /\ plan[1].parser = Trans(Digit, "zero")
    /\ src = <<"1", "+">>
    /\ Len(stderr) = 1
    /\ outcomes[1].result = <<0>> /\ outcomes[2].result = <<0>>
    /\ outcomes[1].pctx.Pos = 1

\* the reparse has logged an error of its own through Recover, on the scratch
\* context, while the main context holds the one error of the first parse
C26_WitnessScratch ==
    /\ At("trans", "check")
    /\ Len(testPC.Errors) = 1
    /\ Len(pctx.Errors) = 1
    /\ testPC.Traces = <<>> /\ pctx.Traces # <<>>
    /\ LastRet.err.isErr

----------------------------------------------------------------------------
(* C27 *)

\* log a is the beginning of log b
C27_Prefix(a, b) == Len(a) <= Len(b) /\ a = SubSeq(b, 1, Len(a))

\* while Evaluate runs, after its reset, a step only appends to pc.Errors
C27_OnlyGrows ==
    (Running /\ stack[1].p.op = "evaluate") => C27_Prefix(pctx.Errors, pctx'.Errors)

\* an evaluation that ended with entries in the log returned an error and no
\* values, whatever the parser returned
C27_LoggedFails ==
    \A k \in 1..Len(outcomes) :
        (plan[k].api = "Evaluate" /\ Len(outcomes[k].pctx.Errors) > 0) =>
            /\ outcomes[k].err.isErr /\ outcomes[k].isNil
            /\ \A j \in 1..Len(outcomes[k].pctx.Errors) :
                  outcomes[k].pctx.Errors[j].kinds \subseteq outcomes[k].err.kinds

\* C27: between the reset at the start of Evaluate and its return the error log
\* only grows; an error Recover logged inside an Or alternative, or under
\* Lookahead, NotFollowedBy or Peek, stays in the log and makes Evaluate return
\* an error even when Or selects another alternative.
C27_ErrorLog == [][C27_OnlyGrows]_vars /\ []C27_LoggedFails

\* on "1 1" Or selected the two-digit sequence over the healed Recover, no
\* parser returned an error, and Evaluate returns the error Recover logged
C27_Witness ==
    /\ status = "done"
    /\ plan[1].parser = Or(<<Logging, SeqOf(<<Digit, Digit>>)>>)
    /\ src = <<"1", "1">>
    /\ outcomes[1].pctx.Pos = 2 /\ Len(outcomes[1].pctx.Results) = 2
    /\ outcomes[1].pctx.Errors = <<NewErrRepeatCount(NoPos)>>
    /\ outcomes[1].isNil /\ ErrorsIs(outcomes[1].err, ErrRepeatCount)

\* the same under Lookahead: the sequence matched the digit, the log holds
\* what Recover logged while Lookahead looked
C27_WitnessLookahead ==
    /\ status = "done"
    /\ plan[1].parser = SeqOf(<<Lookahead(Logging), Digit>>)
    /\ src = <<"1">>
    /\ outcomes[1].pctx.Pos = 1
    /\ Len(outcomes[1].pctx.Errors) = 1
    /\ outcomes[1].isNil

----------------------------------------------------------------------------
(* C28 *)

\* an evaluation of a Repeat without upper limit, on a finite input, over an
\* inner parser that terminates
C28_Case ==
    /\ plan = PlainPlanOf(plan[1].parser)
    /\ plan[1].parser \in ZeroRepeats

\* the evaluation is over: Evaluate has returned or the program has stopped
C28_Terminated == status # "running"

\* C28: Repeat with max = -1 terminates on every finite input for every inner
\* parser that terminates, also one that succeeds without consuming a token:
\* Optional(p) where p does not match, None, Lookahead(p), a Recover whose
\* skipUntil matches without consuming.
C28_AsStated == C28_Case ~> C28_Terminated

\* ZeroOrMore(Optional(Digit)) on "+": MaxIter iterations have succeeded, each
\* on the whole input and consuming nothing, and the loop condition still
\* holds with offset 0
C28_Witness ==
    /\ At("repeat", "resume")
    /\ Top.p = ZeroOrMore("many", Optional(Digit)).kids[1]
    /\ src = <<"+">>
    /\ Len(Top.rets) = MaxIter /\ Top.i = MaxIter - 1
    /\ \A k \in 1..Len(Top.rets) : ~Top.rets[k].err.isErr /\ Top.rets[k].consumed = 0
    /\ Top.offset = 0 /\ Top.offset < Len(Top.src)

\* the same loop over the healed Recover on "+": MaxIter iterations on the
\* whole input, each consuming nothing and each logging an error
C28_WitnessHealed ==
    /\ At("repeat", "resume")
    /\ plan[1].parser = HealedRepeat
    /\ src = <<"+">>
    /\ Len(Top.rets) = MaxIter
    /\ \A k \in 1..Len(Top.rets) : ~Top.rets[k].err.isErr /\ Top.rets[k].consumed = 0
    /\ Top.offset = 0
    /\ Len(pctx.Errors) = MaxIter

----------------------------------------------------------------------------
(* C29 *)

\* a test that calls FindIter, or SplitN without a limit, and then Split
C29_Case ==
    /\ plan[1].api \in {"SplitN", "FindIter"}
    /\ plan[1].api = "SplitN" => plan[1].n <= 0
    /\ plan[2].api = "Split"

\* all calls of the test have returned, or the program has stopped
C29_Terminated == status # "running"

\* C29: Split, SplitN with n <= 0 and FindIter terminate on every finite input
\* and return finitely many segments for every separator parser that
\* terminates, also one that matches at the first position left without
\* consuming a token.
C29_AsStated == C29_Case ~> C29_Terminated

\* Split(Optional(Operator)) on "1": MaxSegments searches have found the
\* separator, each at the first position without consuming, and each has
\* left the whole input
C29_Witness ==
    /\ Running /\ Top.p.op = "Split"
    /\ Top.p.kids[1] = Optional(Operator)
    /\ src = <<"1">>
    /\ Len(Top.rets) = MaxSegments
    /\ \A k \in 1..Len(Top.rets) :
          /\ Top.rets[k].found /\ Top.rets[k].consume = 0
          /\ Top.rets[k].skipped = <<>>
          /\ Top.rets[k].remained = RawTokens(src)
    /\ Top.rest = RawTokens(src)
    /\ \A k \in 1..Len(Top.result) : ~Top.result[k].Last

\* the same in SplitN without a limit and in FindIter with a consumer that
\* goes on
C29_WitnessOthers ==
    /\ Running /\ Top.p.op \in {"SplitN", "FindIter"}
    /\ Top.p.kids[1] = Optional(Operator)
    /\ Len(Top.rets) = MaxSegments
    /\ LastRet.found /\ LastRet.remained = RawTokens(src)
    /\ Top.rest = RawTokens(src) /\ Len(Top.rest) > 0

----------------------------------------------------------------------------
(* C30 *)

\* the invocations that are parsers: not Evaluate, Find, Split, SplitN, FindIter
C30_IsParser(f) == f.p.op \notin {"evaluate", "find", "Split", "SplitN", "FindIter"}

\* every leaf of the model returns a count within the slice it was given
C30_LeavesInRange ==
    \A name \in {"digit", "string", "operator", "err-not-match", "err-repeat-count",
                  "err-critical", "none", "before"} :
        \A i \in Inputs :
            LeafBody(name, RawTokens(i)).consumed \in 0..Len(i)

\* a parser that returns, leaf or combinator, with or without error, returns a
\* count between 0 and the length of the slice it was called with
C30_ReturnsInRange ==
    (Running /\ C30_IsParser(Top) /\ Returns) =>
        Returned.consumed \in 0..Len(Top.src)

\* the slices taken at a consumed count are in range: Evaluate and Find have
\* not panicked on theirs, and the offsets of Seq and Repeat are within src
C30_SlicesInRange ==
    /\ ~(status = "panic" /\ stack # <<>> /\ Top.p.op \in {"evaluate", "find"})
    /\ \A k \in 1..Len(stack) :
          stack[k].p.op \in {"seq", "repeat"} => stack[k].offset \in 0..Len(stack[k].src)

\* C30: every leaf returning a consumed count between 0 and the length of its
\* slice, so does every combinator (Seq, Or in its three modes, Repeat,
\* Optional, Trans, Recover, Lookahead, Peek, NotFollowedBy, Label, Before),
\* on success and on failure; the slices taken at the consumed count in
\* Evaluate, Find, Seq and Repeat are never out of range.
C30_InRange ==
    /\ [](C30_LeavesInRange /\ C30_SlicesInRange)
    /\ [][C30_ReturnsInRange]_vars

\* Recover healed at the last token: the healing scan returns the whole
\* length of the slice, i + consumed with i = 1 and consumed = 1
C30_Witness ==
    /\ At("heal", "resume")
    /\ Len(Top.src) = 2 /\ Top.i = 1
    /\ ~LastRet.err.isErr /\ LastRet.consumed = 1

\* Before stopped in front of the operator of "1 + 1" and the sequence around
\* it consumed all three tokens
C30_WitnessBefore ==
    /\ status = "done"
    /\ plan[1].parser = SeqOf(<<Before, Operator, Before>>)
    /\ src = <<"1", "+", "1">>
    /\ outcomes[1].pctx.Pos = 3
    /\ Len(outcomes[1].pctx.Results) = 3

====
